---- MODULE Spec2Model ----
(***************************************************************************)
(* Model of reddec/wd:                                                     *)
(*   - queue.go : the Queue implementations Unbound (inMemory) and         *)
(*                Limited (boundQueue);                                    *)
(*   - async.go : AsyncProcessor.ServeHTTP (the spooler and the sync       *)
(*                branch) and AsyncProcessor.Run (the worker loop);        *)
(*   - limiters.go : readAttrs and the result metrics;                     *)
(*   - the executor webhookDaemon.ServeHTTP with its bufferedResponse.     *)
(* Every request handler and every worker is a process with a position.   *)
(* A spooled file is named after the request that created it (TempFile    *)
(* returns a fresh name), so file names, queue values and request ids     *)
(* coincide; 0 stands for "no file" / the empty string.                    *)
(***************************************************************************)
EXTENDS Integers, Sequences, FiniteSets, TLC

\* ---- bounds -------------------------------------------------------------
NumReq == 2        \* async requests that arrive
NumWorkers == 2    \* goroutines running AsyncProcessor.Run
QueueCap == 1      \* size given to Limited(size)
MaxRetries == 1    \* largest configured AsyncConfig.Retries

Reqs == 1..NumReq
Workers == 1..NumWorkers

\* ---- HTTP statuses -------------------------------------------------------
StatusOK == 200
StatusAccepted == 202
\* Mutant of StatusNoContent: the acknowledgement of another revision.
AckWithAccepted == StatusAccepted
StatusNoContent == 204
StatusInternalServerError == 500

VARIABLES
    queueKind,         \* "unbound" | "limited": which Queue the processor uses
    Retries,           \* AsyncConfig.Retries
    content,           \* inMemory.content / the buffer of boundQueue.queue
    notify,            \* number of tokens in inMemory.notify (capacity 1)
    ctxDone,           \* the workers' context is cancelled (shutdown)
    rpc,               \* position of each ServeHTTP call
    rctx,              \* the request's context is cancelled
    status,            \* status written to the client (0: none yet)
    body,              \* "" or "error": what http.Error / nothing wrote
    pushRes,           \* result of queue.Push for the request
    fileState,         \* the request's temp file: "none", "open", "written", "closed"
    spoolErr,          \* the step of the spooler that failed ("none": no failure)
    asyncRequestsNum,  \* counter webhooks_async_requests{path, dropped}
    queueSize,         \* AsyncProcessor.queueSize
    disk,              \* names of the spooled files that exist
    wpc,               \* position of each Run call
    wfile,             \* fileName held by the worker (0: none)
    wi,                \* loop variable i of the worker's current retry loop
    popRes,            \* (value, error) returned by the worker's last Pop
    pushed,            \* history: values ever enqueued
    pushDone,          \* history: values whose Push returned nil
    hb,                \* history: <<a, b>> when Push(a) returned before Push(b) started
    popped,            \* history: values in the order Pop took them
    attempts,          \* history: handler invocations per file
    res,               \* the nopWriter of the worker's last attempt at its file
    seenXAttempt,      \* history: X-Attempt values the handler got for that file
    waitCancelled      \* history: the worker's retry wait ended by ctx.Done()

\* State of one request through the directory runner's attribute overrides.
VARIABLES
    xattrs,            \* the script's extended attributes, in xattr.List order
    query,             \* value of the request's query parameter "async"
    manifest,          \* the manifest readAttrs writes to
    apos,              \* index of the attribute the loop of readAttrs is at
    aerr,              \* readAttrs returned an error
    gpc,               \* "read", "serve" or "done"
    respStatus,        \* status the client got (0: none yet)
    respBody           \* "" or "output"

attrVars == <<xattrs, query, manifest, apos, aerr, gpc, respStatus, respBody>>

\* State of the sync branch of AsyncProcessor.ServeHTTP.
VARIABLES
    configWorkers,     \* AsyncConfig.Workers as given to Async
    numCPU,            \* runtime.NumCPU()
    syncWorkers,       \* the semaphore: [size, cur], cur permits are taken
    spc,               \* position of each sync request: "idle", "acquire",
                       \* "handler" (inside processor.ServeHTTP), "done"
    sctx,              \* the sync request's context is cancelled
    sstatus,           \* status the client of the sync request got
    acquireErr,        \* Acquire returned an error to the request
    invoked,           \* history: calls of processor.ServeHTTP per request
    released           \* history: calls of syncWorkers.Release per request

syncVars == <<configWorkers, numCPU, syncWorkers, spc, sctx, sstatus,
              acquireErr, invoked, released>>

\* State of the choice AsyncProcessor.ServeHTTP makes between its branches.
VARIABLES
    configAsync,       \* AsyncConfig.Async
    asyncParam,        \* req.URL.Query().Get("async"), a sequence of characters
    branch             \* "none" (not decided), "sync" or "async"

modeVars == <<configAsync, asyncParam, branch>>

\* State of one request in webhookDaemon.ServeHTTP, with its bufferedResponse.
VARIABLES
    response,          \* the bufferedResponse, its upstream writer included
    epc,               \* "idle", "start", "tempdir", "creds", "body", "spawn",
                       \* "run", "failed", "cleanup", "flush", "done"
    childOut,          \* bytes the child has written to its stdout
    childErr,          \* what cmd.Run returned ("none": it has not returned)
    wrote,             \* history: bytes handed to bufferedResponse.Write
    config,            \* Config: TempDir, RunAsFileOwner, ArgType
    scriptExists,      \* the file command[0] exists
    command,           \* what runner.Command returned: "unknown", "none", "found"
    dirs,              \* the configured work dir and the request's temp dir
    workDir,           \* the local workDir ("": tempDir has returned none)
    setupErr,          \* the step before the spawn that failed, and whether
                       \* its error is os.ErrNotExist
    bodyRead,          \* "no", "cached" or "failed": ioutil.ReadAll(req.Body)
    spawned,           \* history: the child process was started
    cause,             \* history: how the run of the child ended
    sentAtExit,        \* history: response.headersSent when cmd.Run returned
    counted            \* status countResult recorded (0: it has not run)

bufVars == <<response, epc, childOut, childErr, wrote, config, scriptExists,
             command, dirs, workDir, setupErr, bodyRead, spawned, cause,
             sentAtExit, counted>>

\* A DirectoryRunner and one request it resolves.
VARIABLES
    dr,                \* the DirectoryRunner: ScriptsDir, AllowDotFiles
    urlPath,           \* req.URL.Path, a sequence of characters
    asked,             \* Command was called
    resolved           \* what Command returned (<<>>: nil)

runnerVars == <<dr, urlPath, asked, resolved>>

\* One request through RequestSizeLimit, with the body its handler reads.
VARIABLES
    sl,                \* the sizeLimiter: maxSize, consumed, err
    lpc,               \* "idle", "start", "handler", "rejected"
    contentLength,     \* request.ContentLength (-1: unknown)
    bodyLen,           \* bytes the client's body has
    remaining,         \* bytes of the body not yet read from the connection
    wrapped,           \* request.Body is the sizeLimiter
    received,          \* history: body bytes the handler got from Read
    readErrs,          \* history: errors Read has returned to the handler
    afterErr           \* history: calls of Read after its first error

limitVars == <<sl, lpc, contentLength, bodyLen, remaining, wrapped, received,
               readErrs, afterErr>>

\* One request spooled to its file and replayed from it.
VARIABLES
    origReq,           \* the request as the spooler received it
    spool,             \* the content of the temp file, a sequence of tokens
    offset,            \* the read offset of the worker's open file
    tpc,               \* "idle", "spool", "replay"
    tries,             \* attempts made
    seen               \* history: per attempt, the request the handler got
                       \* or the error of the parse

tripVars == <<origReq, spool, offset, tpc, tries, seen>>

VARIABLES
    wg,                \* the counter of runWebhook's sync.WaitGroup
    shutCtx,           \* TRUE when runWebhook's ctx is done
    srvClosed,         \* TRUE after srv.Close()
    mainpc,            \* runWebhook: "idle", "serving", "returned", "exited"
    closerpc,          \* the closing goroutine: "idle", "ctx", "close",
                       \* "wait", "done"
    runpc,             \* per worker goroutine: "idle", "pop", "process",
                       \* "remove", "returned"
    spooled,           \* number of spooled requests waiting in the queue
    held               \* per worker: the spooled file of its popped item
                       \* still exists

shutVars == <<wg, shutCtx, srvClosed, mainpc, closerpc, runpc, spooled, held>>

\* The webhookDaemon of wehbook.go that owns its worker pool.
VARIABLES
    poolSize,          \* Config.Workers after New: the weight of wh.pool
    poolCur,           \* permits of wh.pool that are taken
    busyWorkers,       \* the gauge behind Metrics.AddBusyWorker
    hpc,               \* per request: "idle", "acquire", "acquired",
                       \* "sync", "tempfile", "write", "respond",
                       \* "background", "done"
    hasync,            \* per request: wh.isAsyncRequest(req)
    hctx,              \* per request: req.Context() is done
    hstatus            \* per request: the status the client got (0: none)

poolVars == <<poolSize, poolCur, busyWorkers, hpc, hasync, hctx, hstatus>>

asyncVars == <<queueKind, Retries, content, notify, ctxDone, rpc, rctx, status,
               body, pushRes, fileState, spoolErr, asyncRequestsNum, queueSize,
               disk, wpc, wfile, wi, popRes, pushed, pushDone, hb, popped,
               attempts, res, seenXAttempt, waitCancelled>>

\* What the actions of the async pipeline leave alone.
outsideAsync == <<attrVars, syncVars, modeVars, bufVars, runnerVars,
                  limitVars, tripVars, shutVars, poolVars>>

\* What the actions of the attribute model leave alone.
outsideAttrs == <<asyncVars, syncVars, modeVars, bufVars, runnerVars,
                  limitVars, tripVars, shutVars, poolVars>>

\* What the actions of the sync branch leave alone.
outsideSync == <<asyncVars, attrVars, modeVars, bufVars, runnerVars,
                 limitVars, tripVars, shutVars, poolVars>>

\* What the choice of the branch leaves alone.
outsideMode == <<asyncVars, attrVars, syncVars, bufVars, runnerVars,
                 limitVars, tripVars, shutVars, poolVars>>

\* What the actions of webhookDaemon.ServeHTTP leave alone.
outsideBuf == <<asyncVars, attrVars, syncVars, modeVars, runnerVars,
                limitVars, tripVars, shutVars, poolVars>>

\* What the runner leaves alone.
outsideRunner == <<asyncVars, attrVars, syncVars, modeVars, bufVars,
                   limitVars, tripVars, shutVars, poolVars>>

\* What the size limit leaves alone.
outsideLimit == <<asyncVars, attrVars, syncVars, modeVars, bufVars,
                  runnerVars, tripVars, shutVars, poolVars>>

\* What the replay of a spooled request leaves alone.
outsideTrip == <<asyncVars, attrVars, syncVars, modeVars, bufVars, runnerVars,
                 limitVars, shutVars, poolVars>>

\* everything but runWebhook
outsideShut == <<asyncVars, attrVars, syncVars, modeVars, bufVars, runnerVars,
                 limitVars, tripVars, poolVars>>

\* everything but the daemon with its own pool
outsidePool == <<asyncVars, attrVars, syncVars, modeVars, bufVars, runnerVars,
                 limitVars, tripVars, shutVars>>

vars == <<asyncVars, attrVars, syncVars, modeVars, bufVars, runnerVars,
          limitVars, tripVars, shutVars, poolVars>>

queueVars == <<content, notify>>
reqVars == <<rpc, rctx, status, body, pushRes, fileState, spoolErr,
            asyncRequestsNum>>
tryVars == <<res, seenXAttempt, waitCancelled>>
workerVars == <<wpc, wfile, wi, popRes, tryVars>>
histVars == <<pushed, pushDone, hb, popped>>
cfgVars == <<queueKind, Retries>>

\* No attempt was made yet: there is no nopWriter.
NoResult == [invoked |-> FALSE, status |-> -1]

\* The configurations of Async (lines 59-114) that are explored: each queue
\* without retries, and the retry loop, which only runs between a Pop and
\* the next, over the Limited queue.
AsyncConfigs ==
    {[queue |-> k, retries |-> 0] : k \in {"unbound", "limited"}}
        \cup {[queue |-> "limited", retries |-> n] : n \in 1..MaxRetries}

InitAsync ==
    /\ \E c \in AsyncConfigs : queueKind = c.queue /\ Retries = c.retries
    /\ content = <<>>
    /\ notify = 0
    /\ ctxDone = FALSE
    /\ rpc = [r \in Reqs |-> "start"]
    /\ rctx = [r \in Reqs |-> FALSE]
    /\ status = [r \in Reqs |-> 0]
    /\ body = [r \in Reqs |-> ""]
    /\ pushRes = [r \in Reqs |-> "none"]
    /\ fileState = [r \in Reqs |-> "none"]
    /\ spoolErr = [r \in Reqs |-> "none"]
    /\ asyncRequestsNum = [r \in Reqs |-> [d \in BOOLEAN |-> 0]]
    /\ queueSize = 0
    /\ disk = {}
    /\ wpc = [w \in Workers |-> "pop"]
    /\ wfile = [w \in Workers |-> 0]
    /\ wi = [w \in Workers |-> 0]
    /\ popRes = [w \in Workers |-> [val |-> 0, err |-> "none"]]
    /\ pushed = {}
    /\ pushDone = {}
    /\ hb = {}
    /\ popped = <<>>
    /\ attempts = [r \in Reqs |-> 0]
    /\ res = [w \in Workers |-> NoResult]
    /\ seenXAttempt = [w \in Workers |-> <<>>]
    /\ waitCancelled = [w \in Workers |-> FALSE]

\* ---- queue.go -----------------------------------------------------------

\* Mutant of CanSend: the send is accepted with the buffer already full.
CanSendAtCap == Len(content) <= QueueCap

\* boundQueue.queue is a channel of capacity QueueCap: a send is ready while
\* the buffer has room, a receive while it is not empty.
CanSend == Len(content) < QueueCap
CanRecv == content # <<>>

\* History kept for the queue claims: the value is enqueued now, by a Push
\* call that starts no earlier than every Push that has already returned.
RecordEnqueue(v) ==
    /\ pushed' = pushed \cup {v}
    /\ hb' = hb \cup {<<a, v>> : a \in pushDone}

\* Mutant of inMemoryPushBack: the value is put at the front of the list.
inMemoryPushFront(v) ==
    content' = <<v>> \o content

\* inMemory.Push, lines 32-34: append under the lock.
inMemoryPushBack(v) ==
    content' = Append(content, v)

\* inMemory.Push, lines 35-39: non-blocking send on notify (capacity 1).
inMemoryNotify ==
    notify' = IF notify = 0 THEN 1 ELSE notify

\* Mutant of inMemoryRemoveFront: the front element is read, not removed.
inMemoryKeepFront == content

\* inMemory.Pop, lines 45-50: under the lock, take the front element if any.
\* Yields the element (0: the list was empty) and the remaining list.
inMemoryFront == IF content = <<>> THEN 0 ELSE Head(content)
inMemoryRemoveFront == IF content = <<>> THEN content ELSE Tail(content)

\* boundQueue.Push, the send case of the select.
boundSend(v) ==
    content' = Append(content, v)

\* boundQueue.Pop, the receive case of the select.
boundRecvValue == Head(content)
boundRecvRest == Tail(content)

\* ---- async.go: AsyncProcessor.ServeHTTP (async branch) --------------------

\* http.Error(writer, err.Error(), 500) with dropped = true, then the
\* deferred asyncRequestsNum.WithLabelValues(path, "true").Inc().
Drop(r, step) ==
    /\ spoolErr' = [spoolErr EXCEPT ![r] = step]
    /\ status' = [status EXCEPT ![r] = StatusInternalServerError]
    /\ body' = [body EXCEPT ![r] = "error"]
    /\ asyncRequestsNum' = [asyncRequestsNum EXCEPT ![r][TRUE] = @ + 1]
    /\ rpc' = [rpc EXCEPT ![r] = "done"]

\* Mutant of RemoveAll: the file is left on disk.
RemoveNothing(f) == disk' = disk

\* os.RemoveAll(tmpFile.Name())
RemoveAll(f) == disk' = disk \ {f}

\* Requests are numbered in the order they arrive.
Arrived(r) == IF r = 1 THEN TRUE ELSE rpc[r - 1] # "start"

\* lines 148-154: ioutil.TempFile
ServeHTTP_TempFile(r) ==
    /\ rpc[r] = "start"
    /\ Arrived(r)
    /\ \E ok \in BOOLEAN :
         IF ok
         THEN /\ disk' = disk \cup {r}
              /\ fileState' = [fileState EXCEPT ![r] = "open"]
              /\ rpc' = [rpc EXCEPT ![r] = "write"]
              /\ UNCHANGED <<status, body, asyncRequestsNum, spoolErr>>
         ELSE /\ Drop(r, "create")
              /\ UNCHANGED <<disk, fileState>>
    /\ UNCHANGED <<cfgVars, queueVars, ctxDone, rctx, pushRes, queueSize,
                   workerVars, histVars, attempts>>
    /\ UNCHANGED outsideAsync

\* lines 156-163: req.Write(tmpFile)
ServeHTTP_Write(r) ==
    /\ rpc[r] = "write"
    /\ \E ok \in BOOLEAN :
         IF ok
         THEN /\ fileState' = [fileState EXCEPT ![r] = "written"]
              /\ rpc' = [rpc EXCEPT ![r] = "close"]
              /\ UNCHANGED <<disk, status, body, asyncRequestsNum, spoolErr>>
         ELSE /\ RemoveAll(r)
              /\ Drop(r, "write")
              /\ UNCHANGED fileState
    /\ UNCHANGED <<cfgVars, queueVars, ctxDone, rctx, pushRes, queueSize,
                   workerVars, histVars, attempts>>
    /\ UNCHANGED outsideAsync

\* lines 165-171: tmpFile.Close()
ServeHTTP_Close(r) ==
    /\ rpc[r] = "close"
    /\ \E ok \in BOOLEAN :
         IF ok
         THEN /\ fileState' = [fileState EXCEPT ![r] = "closed"]
              /\ rpc' = [rpc EXCEPT ![r] = "push"]
              /\ UNCHANGED <<disk, status, body, asyncRequestsNum, spoolErr>>
         ELSE /\ RemoveAll(r)
              /\ Drop(r, "close")
              /\ UNCHANGED fileState
    /\ UNCHANGED <<cfgVars, queueVars, ctxDone, rctx, pushRes, queueSize,
                   workerVars, histVars, attempts>>
    /\ UNCHANGED outsideAsync

\* line 173 with the Unbound queue, first half of inMemory.Push.
ServeHTTP_PushUnbound(r) ==
    /\ rpc[r] = "push"
    /\ queueKind = "unbound"
    /\ inMemoryPushBack(r)
    /\ RecordEnqueue(r)
    /\ rpc' = [rpc EXCEPT ![r] = "notify"]
    /\ UNCHANGED <<cfgVars, notify, ctxDone, rctx, status, body, pushRes,
                   fileState, spoolErr, asyncRequestsNum, queueSize, disk,
                   workerVars, pushDone, popped, attempts>>
    /\ UNCHANGED outsideAsync

\* second half of inMemory.Push: notify and return nil.
ServeHTTP_NotifyUnbound(r) ==
    /\ rpc[r] = "notify"
    /\ inMemoryNotify
    /\ pushRes' = [pushRes EXCEPT ![r] = "nil"]
    /\ pushDone' = pushDone \cup {r}
    /\ rpc' = [rpc EXCEPT ![r] = "ack"]
    /\ UNCHANGED <<cfgVars, content, ctxDone, rctx, status, body, fileState,
                   spoolErr, asyncRequestsNum, queueSize, disk, workerVars,
                   pushed, hb, popped, attempts>>
    /\ UNCHANGED outsideAsync

\* line 173 with the Limited queue: boundQueue.Push, send case.
ServeHTTP_PushLimited(r) ==
    /\ rpc[r] = "push"
    /\ queueKind = "limited"
    /\ CanSend
    /\ boundSend(r)
    /\ RecordEnqueue(r)
    /\ pushRes' = [pushRes EXCEPT ![r] = "nil"]
    /\ pushDone' = pushDone \cup {r}
    /\ rpc' = [rpc EXCEPT ![r] = "ack"]
    /\ UNCHANGED <<cfgVars, notify, ctxDone, rctx, status, body, fileState,
                   spoolErr, asyncRequestsNum, queueSize, disk, workerVars,
                   popped, attempts>>
    /\ UNCHANGED outsideAsync

\* line 173 with the Limited queue: boundQueue.Push, ctx.Done case, then
\* lines 174-178.
ServeHTTP_PushCancelled(r) ==
    /\ rpc[r] = "push"
    /\ queueKind = "limited"
    /\ rctx[r]
    /\ pushRes' = [pushRes EXCEPT ![r] = "canceled"]
    /\ RemoveAll(r)
    /\ Drop(r, "push")
    /\ UNCHANGED <<cfgVars, queueVars, ctxDone, rctx, fileState, queueSize,
                   workerVars, histVars, attempts>>
    /\ UNCHANGED outsideAsync

\* lines 180-181 and the deferred counter: incQueueSize, WriteHeader(204).
ServeHTTP_Ack(r) ==
    /\ rpc[r] = "ack"
    /\ queueSize' = queueSize + 1
    /\ status' = [status EXCEPT ![r] = StatusNoContent]
    /\ asyncRequestsNum' = [asyncRequestsNum EXCEPT ![r][FALSE] = @ + 1]
    /\ rpc' = [rpc EXCEPT ![r] = "done"]
    /\ UNCHANGED <<cfgVars, queueVars, ctxDone, rctx, body, pushRes,
                   fileState, spoolErr, disk, workerVars, histVars, attempts>>
    /\ UNCHANGED outsideAsync

\* The client goes away (or the server closes the connection) while the
\* handler runs: req.Context() is cancelled. The handler reads the context
\* only inside queue.Push, so the cancellation is taken at that point.
CancelRequest(r) ==
    /\ rpc[r] = "push"
    /\ ~rctx[r]
    /\ rctx' = [rctx EXCEPT ![r] = TRUE]
    /\ UNCHANGED <<cfgVars, queueVars, ctxDone, rpc, status, body, pushRes,
                   fileState, spoolErr, asyncRequestsNum, queueSize, disk,
                   workerVars, histVars, attempts>>
    /\ UNCHANGED outsideAsync

\* ---- async.go: AsyncProcessor.Run -----------------------------------------

\* Statuses the wrapped handler can leave in the nopWriter (0: WriteHeader
\* was never called). An attempt either fails before the handler is invoked
\* (Seek or http.ReadRequest returns an error) or invokes it.
HandlerStatuses == {0, 200, 302, 404, 502}
AttemptOutcomes ==
    {[invoked |-> FALSE, status |-> 0]}
        \cup {[invoked |-> TRUE, status |-> s] : s \in HandlerStatuses}

\* Mutant of AttemptSucceeded: every status below 400 counts as a success.
AttemptSucceededBelow400(o) == o.invoked /\ o.status < 400

\* line 248: res.status == 0 || res.status/100 == 2
AttemptSucceeded(o) == o.invoked /\ (o.status = 0 \/ o.status \div 100 = 2)

\* Pop returned (v, nil): Run goes on to decQueueSize.
PopReturns(w, v) ==
    /\ wfile' = [wfile EXCEPT ![w] = v]
    /\ popRes' = [popRes EXCEPT ![w] = [val |-> v, err |-> "nil"]]
    /\ popped' = Append(popped, v)
    /\ wpc' = [wpc EXCEPT ![w] = "dec"]

\* Mutant of PopFails: the cancelled Pop takes the front element away.
PopFailsTakingFront(w) ==
    /\ popRes' = [popRes EXCEPT ![w] = [val |-> 0, err |-> "canceled"]]
    /\ wpc' = [wpc EXCEPT ![w] = "returned"]
    /\ content' = IF content = <<>> THEN content ELSE Tail(content)
    /\ UNCHANGED <<wfile, popped>>

\* Pop returned ("", ctx.Err()): Run returns (lines 191-193).
PopFails(w) ==
    /\ popRes' = [popRes EXCEPT ![w] = [val |-> 0, err |-> "canceled"]]
    /\ wpc' = [wpc EXCEPT ![w] = "returned"]
    /\ UNCHANGED <<content, wfile, popped>>

\* line 190 with the Unbound queue: inMemory.Pop, lines 45-54.
Run_PopUnbound(w) ==
    /\ wpc[w] = "pop"
    /\ queueKind = "unbound"
    /\ LET elem == inMemoryFront IN
         /\ content' = inMemoryRemoveFront
         /\ IF elem # 0
            THEN PopReturns(w, elem)
            ELSE /\ wpc' = [wpc EXCEPT ![w] = "wait"]
                 /\ UNCHANGED <<wfile, popRes, popped>>
    /\ UNCHANGED <<cfgVars, notify, ctxDone, reqVars, queueSize, disk, wi,
                   pushed, pushDone, hb, attempts>>
    /\ UNCHANGED tryVars
    /\ UNCHANGED outsideAsync

\* inMemory.Pop, lines 56-60, case <-q.notify: loop again.
Run_PopWake(w) ==
    /\ wpc[w] = "wait"
    /\ notify = 1
    /\ notify' = 0
    /\ wpc' = [wpc EXCEPT ![w] = "pop"]
    /\ UNCHANGED <<cfgVars, content, ctxDone, reqVars, queueSize, disk, wfile,
                   wi, popRes, histVars, attempts>>
    /\ UNCHANGED tryVars
    /\ UNCHANGED outsideAsync

\* inMemory.Pop, lines 56-60, case <-ctx.Done().
Run_PopWaitCancelled(w) ==
    /\ wpc[w] = "wait"
    /\ ctxDone
    /\ PopFails(w)
    /\ UNCHANGED <<cfgVars, notify, ctxDone, reqVars, queueSize, disk, wi,
                   pushed, pushDone, hb, attempts>>
    /\ UNCHANGED tryVars
    /\ UNCHANGED outsideAsync

\* line 190 with the Limited queue: boundQueue.Pop, receive case.
Run_PopLimited(w) ==
    /\ wpc[w] = "pop"
    /\ queueKind = "limited"
    /\ CanRecv
    /\ content' = boundRecvRest
    /\ PopReturns(w, boundRecvValue)
    /\ UNCHANGED <<cfgVars, notify, ctxDone, reqVars, queueSize, disk, wi,
                   pushed, pushDone, hb, attempts>>
    /\ UNCHANGED tryVars
    /\ UNCHANGED outsideAsync

\* line 190 with the Limited queue: boundQueue.Pop, ctx.Done case.
Run_PopLimitedCancelled(w) ==
    /\ wpc[w] = "pop"
    /\ queueKind = "limited"
    /\ ctxDone
    /\ PopFails(w)
    /\ UNCHANGED <<cfgVars, notify, ctxDone, reqVars, queueSize, disk, wi,
                   pushed, pushDone, hb, attempts>>
    /\ UNCHANGED tryVars
    /\ UNCHANGED outsideAsync

\* line 194: decQueueSize, then openStoredRequestFile starts with i = 0.
Run_Dec(w) ==
    /\ wpc[w] = "dec"
    /\ queueSize' = queueSize - 1
    /\ wi' = [wi EXCEPT ![w] = 0]
    /\ wpc' = [wpc EXCEPT ![w] = "open"]
    /\ UNCHANGED <<cfgVars, queueVars, ctxDone, reqVars, disk, wfile, popRes,
                   histVars, attempts>>
    /\ UNCHANGED tryVars
    /\ UNCHANGED outsideAsync

\* What Run does when openStoredRequestFile returns ErrUnprocessableFile
\* (lines 196-199): log and continue with the next Pop.
Unprocessable(w) ==
    /\ wpc' = [wpc EXCEPT ![w] = "pop"]
    /\ wfile' = [wfile EXCEPT ![w] = 0]
    /\ wi' = [wi EXCEPT ![w] = 0]
    /\ UNCHANGED disk

\* lines 255-269: one os.Open of openStoredRequestFile. The open may fail
\* although the file exists (EMFILE, EACCES); it fails when it does not.
openStoredRequestFile(w) ==
    /\ wpc[w] = "open"
    /\ \E ok \in BOOLEAN :
         /\ ok => wfile[w] \in disk
         /\ IF ok
            THEN /\ wpc' = [wpc EXCEPT ![w] = "attempt"]
                 /\ wi' = [wi EXCEPT ![w] = 0]
                 /\ UNCHANGED <<wfile, disk>>
            ELSE IF wi[w] < Retries
                 THEN /\ wi' = [wi EXCEPT ![w] = @ + 1]
                      /\ UNCHANGED <<wpc, wfile, disk>>
                 ELSE Unprocessable(w)
    /\ UNCHANGED <<cfgVars, queueVars, ctxDone, reqVars, queueSize, popRes,
                   histVars, attempts>>
    /\ UNCHANGED tryVars
    /\ UNCHANGED outsideAsync

\* Values of the header X-Attempt in the request as it arrived (0: the
\* request has no such header).
OriginalXAttempt == {0, 7}

\* Mutant of HeaderSet: the value is added after the one already there, and
\* Header.Get gives the first.
HeaderAdd(orig, v) == IF orig = 0 THEN v ELSE orig

\* line 244: req.Header.Set("X-Attempt", v) replaces every earlier value.
HeaderSet(orig, v) == v

\* Mutant of LastAttempt: the loop stops one attempt early.
LastAttemptEarly(i) == i + 1 >= Retries

\* line 219: i < ap.config.Retries is false, the loop of line 212 ends.
LastAttempt(i) == i >= Retries

\* lines 213-219 and 233-253: attempt number i of processRequestAsync. The
\* handler, when the request could be read back, gets X-Attempt = i + 1.
processRequestAsyncAttempt(w) ==
    /\ wpc[w] = "attempt"
    /\ \E o \in AttemptOutcomes, orig \in OriginalXAttempt :
         /\ attempts' = IF ~o.invoked THEN attempts
                        ELSE [attempts EXCEPT ![wfile[w]] = @ + 1]
         /\ seenXAttempt' =
               IF ~o.invoked THEN seenXAttempt
               ELSE [seenXAttempt EXCEPT
                        ![w] = Append(@, HeaderSet(orig, wi[w] + 1))]
         /\ res' = [res EXCEPT ![w] = o]
         /\ IF AttemptSucceeded(o)
            THEN wpc' = [wpc EXCEPT ![w] = "cleanup"]
            ELSE IF ~LastAttempt(wi[w])
                 THEN wpc' = [wpc EXCEPT ![w] = "retrywait"]
                 ELSE wpc' = [wpc EXCEPT ![w] = "cleanup"]
    /\ UNCHANGED <<cfgVars, queueVars, ctxDone, reqVars, queueSize, disk,
                   wfile, wi, popRes, histVars, waitCancelled>>
    /\ UNCHANGED outsideAsync

\* lines 221-227, case <-time.After(Delay): next attempt.
processRequestAsync_Delay(w) ==
    /\ wpc[w] = "retrywait"
    /\ wi' = [wi EXCEPT ![w] = @ + 1]
    /\ wpc' = [wpc EXCEPT ![w] = "attempt"]
    /\ UNCHANGED <<cfgVars, queueVars, ctxDone, reqVars, queueSize, disk,
                   wfile, popRes, histVars, attempts>>
    /\ UNCHANGED tryVars
    /\ UNCHANGED outsideAsync

\* lines 221-224, case <-ctx.Done(): processRequestAsync returns.
processRequestAsync_Cancelled(w) ==
    /\ wpc[w] = "retrywait"
    /\ ctxDone
    /\ wpc' = [wpc EXCEPT ![w] = "cleanup"]
    /\ waitCancelled' = [waitCancelled EXCEPT ![w] = TRUE]
    /\ UNCHANGED <<cfgVars, queueVars, ctxDone, reqVars, queueSize, disk,
                   wfile, wi, popRes, histVars, attempts, res, seenXAttempt>>
    /\ UNCHANGED outsideAsync

\* lines 202-203: tmpFile.Close(), os.RemoveAll(tmpFile.Name()), loop.
Run_Cleanup(w) ==
    /\ wpc[w] = "cleanup"
    /\ RemoveAll(wfile[w])
    /\ wfile' = [wfile EXCEPT ![w] = 0]
    /\ wi' = [wi EXCEPT ![w] = 0]
    /\ wpc' = [wpc EXCEPT ![w] = "pop"]
    /\ res' = [res EXCEPT ![w] = NoResult]
    /\ seenXAttempt' = [seenXAttempt EXCEPT ![w] = <<>>]
    /\ UNCHANGED <<cfgVars, queueVars, ctxDone, reqVars, queueSize, popRes,
                   histVars, attempts, waitCancelled>>
    /\ UNCHANGED outsideAsync

\* Shutdown: the context given to every Run is cancelled.
Cancel ==
    /\ ~ctxDone
    /\ ctxDone' = TRUE
    /\ UNCHANGED <<cfgVars, queueVars, reqVars, queueSize, disk, workerVars,
                   histVars, attempts>>
    /\ UNCHANGED outsideAsync

\* ---- async.go: AsyncProcessor.ServeHTTP (sync branch) ---------------------

NumSync == 3       \* sync requests that arrive
MaxWorkers == 2    \* largest AsyncConfig.Workers
MaxCPU == 2        \* largest runtime.NumCPU()

SyncReqs == 1..NumSync

\* Mutant of DefaultWorkers: one permit per CPU.
DefaultWorkersPerCPU(workers, ncpu) == IF workers <= 0 THEN ncpu ELSE workers

\* Async, lines 60-62: config.Workers <= 0 becomes 2 * runtime.NumCPU().
DefaultWorkers(workers, ncpu) == IF workers <= 0 THEN 2 * ncpu ELSE workers

\* line 81: semaphore.NewWeighted(config.Workers)
NewWeighted(n) == [size |-> n, cur |-> 0]

\* semaphore.Weighted.Acquire(ctx, 1) can take a permit.
CanAcquire == syncWorkers.size - syncWorkers.cur >= 1

\* Mutant of Release: the permit is kept.
ReleaseNothing(sem) == sem

\* semaphore.Weighted.Release(1)
Release(sem) == [sem EXCEPT !.cur = @ - 1]

InitSync ==
    /\ configWorkers \in -1..MaxWorkers
    /\ numCPU \in 1..MaxCPU
    /\ syncWorkers = NewWeighted(DefaultWorkers(configWorkers, numCPU))
    /\ spc = [r \in SyncReqs |-> "acquire"]
    /\ sctx = [r \in SyncReqs |-> FALSE]
    /\ sstatus = [r \in SyncReqs |-> 0]
    /\ acquireErr = [r \in SyncReqs |-> FALSE]
    /\ invoked = [r \in SyncReqs |-> 0]
    /\ released = [r \in SyncReqs |-> 0]

\* No sync request arrives.
IdleSync ==
    /\ configWorkers = 1
    /\ numCPU = 1
    /\ syncWorkers = NewWeighted(DefaultWorkers(configWorkers, numCPU))
    /\ spc = [r \in SyncReqs |-> "idle"]
    /\ sctx = [r \in SyncReqs |-> FALSE]
    /\ sstatus = [r \in SyncReqs |-> 0]
    /\ acquireErr = [r \in SyncReqs |-> FALSE]
    /\ invoked = [r \in SyncReqs |-> 0]
    /\ released = [r \in SyncReqs |-> 0]

\* line 133, Acquire returns nil; line 138 defers the Release and line 140
\* calls the wrapped handler.
ServeHTTP_Acquire(r) ==
    /\ spc[r] = "acquire"
    /\ CanAcquire
    /\ syncWorkers' = [syncWorkers EXCEPT !.cur = @ + 1]
    /\ invoked' = [invoked EXCEPT ![r] = @ + 1]
    /\ spc' = [spc EXCEPT ![r] = "handler"]
    /\ UNCHANGED <<configWorkers, numCPU, sctx, sstatus, acquireErr, released>>
    /\ UNCHANGED outsideSync

\* Mutant of BailOut: the return of line 136 is missing, the handler runs.
BailOutInvoking(r) ==
    /\ sstatus' = [sstatus EXCEPT ![r] = StatusInternalServerError]
    /\ invoked' = [invoked EXCEPT ![r] = @ + 1]
    /\ UNCHANGED <<syncWorkers, released>>

\* lines 134-136: log, http.Error(500), return.
BailOut(r) ==
    /\ sstatus' = [sstatus EXCEPT ![r] = StatusInternalServerError]
    /\ UNCHANGED <<syncWorkers, invoked, released>>

\* line 133, Acquire returns ctx.Err(): the request's context is done.
ServeHTTP_AcquireCancelled(r) ==
    /\ spc[r] = "acquire"
    /\ sctx[r]
    /\ acquireErr' = [acquireErr EXCEPT ![r] = TRUE]
    /\ BailOut(r)
    /\ spc' = [spc EXCEPT ![r] = "done"]
    /\ UNCHANGED <<configWorkers, numCPU, sctx>>
    /\ UNCHANGED outsideSync

\* lines 140-141: the wrapped handler returns, having written a status or
\* none (0), and the deferred Release runs.
ServeHTTP_Return(r) ==
    /\ spc[r] = "handler"
    /\ \E s \in HandlerStatuses : sstatus' = [sstatus EXCEPT ![r] = s]
    /\ syncWorkers' = Release(syncWorkers)
    /\ released' = [released EXCEPT ![r] = @ + 1]
    /\ spc' = [spc EXCEPT ![r] = "done"]
    /\ UNCHANGED <<configWorkers, numCPU, sctx, acquireErr, invoked>>
    /\ UNCHANGED outsideSync

\* The client of a sync request goes away while the request waits for a
\* permit.
CancelSync(r) ==
    /\ spc[r] = "acquire"
    /\ ~sctx[r]
    /\ sctx' = [sctx EXCEPT ![r] = TRUE]
    /\ UNCHANGED <<configWorkers, numCPU, syncWorkers, spc, sstatus,
                   acquireErr, invoked, released>>
    /\ UNCHANGED outsideSync

\* ---- webhookDaemon.ServeHTTP and bufferedResponse ---------------------------

MaxBuffer == 3     \* largest Config.BufferSize
MaxOut == 4        \* most bytes the child writes

StatusBadRequest == 400
StatusNotFound == 404
StatusBadGateway == 502
StatusGatewayTimeout == 504

\* The http.ResponseWriter of the server. The first WriteHeader commits the
\* status and the headers set so far; a Write before any WriteHeader commits
\* 200; a later WriteHeader changes nothing for the client. nopStatus is
\* what the nopWriter of an async attempt keeps of the same calls (async.go
\* lines 306-312): the code of the last WriteHeader, and nothing of a Write.
NewUpstream ==
    [status |-> 0, writes |-> <<>>, headerCalls |-> 0, xError |-> FALSE,
     sentXError |-> FALSE, nopStatus |-> 0]

UpstreamCommit(u, code) ==
    IF u.status # 0 THEN u
    ELSE [u EXCEPT !.status = code, !.sentXError = u.xError]

\* Mutant of UpstreamWriteHeader: the nopWriter does not keep the code.
UpstreamWriteHeaderUnkept(u, code) ==
    [UpstreamCommit(u, code) EXCEPT !.headerCalls = @ + 1]

UpstreamWriteHeader(u, code) ==
    [UpstreamCommit(u, code) EXCEPT !.headerCalls = @ + 1,
                                    !.nopStatus = code]

\* async.go lines 246-247: the outcome of an attempt whose handler wrote to
\* the nopWriter.
NopOutcome(u) == [invoked |-> TRUE, status |-> u.nopStatus]

\* Mutant of UpstreamWrite: the data is dropped.
UpstreamWriteDropped(u, data) == UpstreamCommit(u, StatusOK)

UpstreamWrite(u, data) ==
    [UpstreamCommit(u, StatusOK) EXCEPT !.writes = Append(@, data)]

\* lines 80-84: the bufferedResponse ServeHTTP creates.
NewBufferedResponse(size) ==
    [bufferSize |-> size, statusCode |-> 0, headersSent |-> FALSE,
     buffer |-> <<>>, sent |-> 0, upstream |-> NewUpstream]

\* Mutant of WriteHeader: the status goes upstream at once.
WriteHeaderThrough(br, statusCode) ==
    [br EXCEPT !.statusCode = statusCode,
               !.upstream = UpstreamWriteHeader(@, statusCode)]

\* bufferedResponse.WriteHeader, lines 246-248
WriteHeader(br, statusCode) ==
    [br EXCEPT !.statusCode = statusCode]

\* Mutant of flush: it does not return early when the headers were sent.
flushUnguarded(br) ==
    LET coded == IF br.statusCode # 0
                 THEN [br EXCEPT !.upstream =
                             UpstreamWriteHeader(@, br.statusCode)]
                 ELSE [br EXCEPT !.statusCode = StatusOK]
        marked == [coded EXCEPT !.headersSent = TRUE]
    IN  IF Len(marked.buffer) = 0 THEN marked
        ELSE [marked EXCEPT
                 !.upstream = UpstreamWrite(@, marked.buffer),
                 !.sent = @ + Len(marked.buffer),
                 !.buffer = <<>>]

\* bufferedResponse.flush, lines 250-267
flush(br) ==
    IF br.headersSent THEN br
    ELSE LET coded == IF br.statusCode # 0
                      THEN [br EXCEPT !.upstream =
                                  UpstreamWriteHeader(@, br.statusCode)]
                      ELSE [br EXCEPT !.statusCode = StatusOK]
             marked == [coded EXCEPT !.headersSent = TRUE]
         IN  IF Len(marked.buffer) = 0 THEN marked
             ELSE [marked EXCEPT
                      !.upstream = UpstreamWrite(@, marked.buffer),
                      !.sent = @ + Len(marked.buffer),
                      !.buffer = <<>>]

\* Mutant of Write: every Write flushes, whatever the buffer holds.
WriteEager(br, data) ==
    IF br.headersSent \/ br.bufferSize <= 0
    THEN LET flushed == flush(br) IN
           [flushed EXCEPT !.upstream = UpstreamWrite(@, data),
                           !.sent = @ + Len(data)]
    ELSE flush([br EXCEPT !.buffer = @ \o data])

\* bufferedResponse.Write, lines 232-244
Write(br, data) ==
    IF br.headersSent \/ br.bufferSize <= 0
    THEN LET flushed == flush(br) IN
           [flushed EXCEPT !.upstream = UpstreamWrite(@, data),
                           !.sent = @ + Len(data)]
    ELSE LET filled == [br EXCEPT !.buffer = @ \o data] IN
           IF Len(filled.buffer) < filled.bufferSize
           THEN filled
           ELSE flush(filled)

\* What the errors.Is tests of ServeHTTP see in the error of cmd.Run: nil,
\* an error that is neither of the two tested ("exit": *exec.ExitError,
\* "start": another failure of Start), context.DeadlineExceeded, or
\* os.ErrNotExist.
RunErrors == {"nil", "exit", "start", "deadline", "notexist"}

\* How the run of the child ended: it exited with status 0 or with another
\* status, it was killed when the deadline of lines 97-102 fired, or it was
\* never started: the executable or the work dir does not exist, the
\* deadline had passed before Start, or Start failed otherwise.
Causes == {"exit0", "exitN", "killed", "notexist", "ctxdone", "startfail"}

\* cmd.Run (os/exec of go 1.17, go.mod): Start returns ctx.Err() when the
\* context is done before the process starts, and the error of the fork;
\* Wait returns *exec.ExitError for every process that did not exit with
\* status 0, a process killed by the context's deadline included
\* ("signal: killed").
RunError(c) ==
    CASE c = "exit0" -> "nil"
      [] c = "exitN" -> "exit"
      [] c = "killed" -> "exit"
      [] c = "notexist" -> "notexist"
      [] c = "ctxdone" -> "deadline"
      [] c = "startfail" -> "start"

\* Mutant of FailureStatus: a failed run is answered like a success.
FailureStatusOK(err) == StatusOK

\* lines 165-171: the status for a failed run.
FailureStatus(err) ==
    IF err = "deadline" THEN StatusGatewayTimeout
    ELSE IF err = "notexist" THEN StatusNotFound
    ELSE StatusBadGateway

\* The text of an error page (bytes 0) and the bytes from .. to of the
\* child's output (the k-th byte is k).
ErrorText(n) == [i \in 1..n |-> 0]
ChildBytes(from, to) == [i \in 1..(to - from + 1) |-> from + i - 1]

\* http.Error and http.NotFound on the bufferedResponse (lines 93, 107, 110,
\* 133, 142): the status, then the text.
httpError(br, code, n) == Write(WriteHeader(br, code), ErrorText(n))

ArgTypeStdin == "stdin"
ArgTypeParam == "param"
ArgTypeEnv == "env"
ArgTypes == {ArgTypeStdin, ArgTypeParam, ArgTypeEnv}

\* Mutant of IsCachingType: every payload mode reads the body first.
IsCachingTypeAlways(at) == TRUE

\* ArgType.IsCachingType, lines 284-286
IsCachingType(at) == at = ArgTypeEnv \/ at = ArgTypeParam

\* Mutant of CommandMissing: an empty command is run like any other.
CommandMissingNever(c) == FALSE

\* line 92: len(command) == 0
CommandMissing(c) == c = "none"

\* Mutant of HeadersSent: the failure is written whatever was sent.
HeadersSentNever(br) == FALSE

\* line 174: response.headersSent
HeadersSent(br) == br.headersSent

NoDirs == [work |-> "exists", tmp |-> "none"]
NoSetupErr == [step |-> "none", notExist |-> FALSE]

\* os.RemoveAll(dir), taken to succeed: "work" is the configured work dir,
\* "tmp" the temp dir of the request.
RemoveAllDir(d, dir) ==
    IF dir \in {"work", "tmp"} /\ d[dir] = "exists"
    THEN [d EXCEPT ![dir] = "removed"]
    ELSE d

\* Mutant of NotExistIs404: the error of tempDir always gives 500.
NotExistIs500(notExist) == StatusInternalServerError

\* lines 105-112: the status for an error of tempDir.
NotExistIs404(notExist) ==
    IF notExist THEN StatusNotFound ELSE StatusInternalServerError

\* webhookDaemon.tempDir, lines 182-198: the results it can have, each with
\* the directory it returns, the directories it leaves and the step that
\* failed. ioutil.TempDir fails with ENOENT when the root does not exist,
\* internal.ChownAsFile when the script does not; both can fail otherwise.
tempDir(cfg, d, script) ==
    LET made == [d EXCEPT !.tmp = "exists"]
        result(dir, ds, step, ne) ==
            [workDir |-> dir, dirs |-> ds,
             err |-> [step |-> step, notExist |-> ne]]
        chowned ==
            IF ~cfg.RunAsFileOwner
            THEN {result("tmp", made, "none", FALSE)}
            ELSE IF ~script
            THEN {result("", RemoveAllDir(made, "tmp"), "chown", TRUE)}
            ELSE {result("tmp", made, "none", FALSE),
                  result("", RemoveAllDir(made, "tmp"), "chown", FALSE)}
    IN  IF ~cfg.TempDir
        THEN {result("work", d, "none", FALSE)}
        ELSE IF d.work # "exists"
        THEN {result("", d, "mkdir", TRUE)}
        ELSE {result("", d, "mkdir", FALSE)} \cup chowned

\* Mutant of cleanupTempDir: the directory is removed in every configuration.
cleanupTempDirAlways(cfg, d, dir) == RemoveAllDir(d, dir)

\* webhookDaemon.cleanupTempDir, lines 200-205
cleanupTempDir(cfg, d, dir) ==
    IF ~cfg.TempDir THEN d ELSE RemoveAllDir(d, dir)

\* webhookDaemon.setRunCredentials, lines 207-212, with internal.SetCreds:
\* the errors it can return. Stat fails with ENOENT when the script does
\* not exist, and can fail otherwise.
setRunCredentials(cfg, script) ==
    IF ~cfg.RunAsFileOwner THEN {NoSetupErr}
    ELSE IF ~script THEN {[step |-> "creds", notExist |-> TRUE]}
    ELSE {NoSetupErr, [step |-> "creds", notExist |-> FALSE]}

Configs ==
    [TempDir : BOOLEAN, RunAsFileOwner : BOOLEAN, ArgType : ArgTypes]

InitBuf ==
    /\ response \in {NewBufferedResponse(size) : size \in -1..MaxBuffer}
    /\ epc = "start"
    /\ childOut = 0
    /\ childErr = "none"
    /\ wrote = 0
    /\ config \in Configs
    /\ scriptExists \in BOOLEAN
    /\ command = "unknown"
    /\ dirs \in {[NoDirs EXCEPT !.work = w] : w \in {"exists", "missing"}}
    /\ workDir = ""
    /\ setupErr = NoSetupErr
    /\ bodyRead = "no"
    /\ spawned = FALSE
    /\ cause = "none"
    /\ sentAtExit = FALSE
    /\ counted = 0

\* No request is in webhookDaemon.ServeHTTP.
IdleBuf ==
    /\ response = NewBufferedResponse(0)
    /\ epc = "idle"
    /\ childOut = 0
    /\ childErr = "none"
    /\ wrote = 0
    /\ config = [TempDir |-> FALSE, RunAsFileOwner |-> FALSE,
                 ArgType |-> ArgTypeStdin]
    /\ scriptExists = TRUE
    /\ command = "unknown"
    /\ dirs = NoDirs
    /\ workDir = ""
    /\ setupErr = NoSetupErr
    /\ bodyRead = "no"
    /\ spawned = FALSE
    /\ cause = "none"
    /\ sentAtExit = FALSE
    /\ counted = 0

\* lines 91-95: the runner resolves the command; none gives http.NotFound
\* and the return.
ServeHTTP_Command ==
    /\ epc = "start"
    /\ \E c \in {"none", "found"} :
         /\ command' = c
         /\ IF CommandMissing(c)
            THEN /\ \E n \in 1..MaxOut :
                      /\ response' = httpError(response, StatusNotFound, n)
                      /\ wrote' = wrote + n
                 /\ epc' = "flush"
            ELSE /\ epc' = "tempdir"
                 /\ UNCHANGED <<response, wrote>>
    /\ UNCHANGED <<childOut, childErr, config, scriptExists, dirs, workDir,
                   setupErr, bodyRead, spawned, cause, sentAtExit, counted>>
    /\ UNCHANGED outsideBuf

\* lines 104-114: wh.tempDir; its error gives 404 or 500 and the return,
\* its success registers the deferred cleanupTempDir(workDir).
ServeHTTP_TempDir ==
    /\ epc = "tempdir"
    /\ \E r \in tempDir(config, dirs, scriptExists) :
         /\ dirs' = r.dirs
         /\ workDir' = r.workDir
         /\ setupErr' = r.err
         /\ IF r.err.step # "none"
            THEN /\ \E n \in 1..MaxOut :
                      /\ response' =
                            httpError(response,
                                      NotExistIs404(r.err.notExist), n)
                      /\ wrote' = wrote + n
                 /\ epc' = "flush"
            ELSE /\ epc' = "creds"
                 /\ UNCHANGED <<response, wrote>>
    /\ UNCHANGED <<childOut, childErr, config, scriptExists, command,
                   bodyRead, spawned, cause, sentAtExit, counted>>
    /\ UNCHANGED outsideBuf

\* lines 132-136: wh.setRunCredentials; its error gives 500 and the return.
ServeHTTP_SetCreds ==
    /\ epc = "creds"
    /\ \E e \in setRunCredentials(config, scriptExists) :
         /\ setupErr' = e
         /\ IF e.step # "none"
            THEN /\ \E n \in 1..MaxOut :
                      /\ response' =
                            httpError(response, StatusInternalServerError, n)
                      /\ wrote' = wrote + n
                 /\ epc' = "cleanup"
            ELSE /\ epc' = "body"
                 /\ UNCHANGED <<response, wrote>>
    /\ UNCHANGED <<childOut, childErr, config, scriptExists, command, dirs,
                   workDir, bodyRead, spawned, cause, sentAtExit, counted>>
    /\ UNCHANGED outsideBuf

\* lines 138-158: the caching payload modes read the whole body, a failure
\* gives 400 and the return; the stdin mode hands req.Body to the child.
ServeHTTP_ReadBody ==
    /\ epc = "body"
    /\ IF IsCachingType(config.ArgType)
       THEN \E ok \in BOOLEAN :
              IF ok
              THEN /\ bodyRead' = "cached"
                   /\ epc' = "spawn"
                   /\ UNCHANGED <<response, wrote, setupErr>>
              ELSE /\ bodyRead' = "failed"
                   /\ setupErr' = [step |-> "body", notExist |-> FALSE]
                   /\ \E n \in 1..MaxOut :
                        /\ response' =
                              httpError(response, StatusBadRequest, n)
                        /\ wrote' = wrote + n
                   /\ epc' = "cleanup"
       ELSE /\ epc' = "spawn"
            /\ UNCHANGED <<response, wrote, setupErr, bodyRead>>
    /\ UNCHANGED <<childOut, childErr, config, scriptExists, command, dirs,
                   workDir, spawned, cause, sentAtExit, counted>>
    /\ UNCHANGED outsideBuf

\* line 160: cmd.Run starts the child. The start fails when the executable
\* or the directory to run in does not exist, when the context is done
\* already, or for another reason; no process exists then.
ServeHTTP_Run ==
    /\ epc = "spawn"
    /\ \E c \in {"started", "notexist", "ctxdone", "startfail"} :
         /\ (~scriptExists \/ dirs[workDir] # "exists") => c = "notexist"
         /\ c = "notexist" => (~scriptExists \/ dirs[workDir] # "exists")
         /\ IF c = "started"
            THEN /\ spawned' = TRUE
                 /\ epc' = "run"
                 /\ UNCHANGED <<childErr, cause, sentAtExit>>
            ELSE /\ cause' = c
                 /\ childErr' = RunError(c)
                 /\ sentAtExit' = response.headersSent
                 /\ epc' = "failed"
                 /\ UNCHANGED spawned
    /\ UNCHANGED <<response, childOut, wrote, config, scriptExists, command,
                   dirs, workDir, setupErr, bodyRead, counted>>
    /\ UNCHANGED outsideBuf

\* cmd.Stdout = writer (line 118): the child's output is copied to the
\* bufferedResponse, one Write per chunk read from its stdout.
Child_Write ==
    /\ epc = "run"
    /\ \E n \in 1..(MaxOut - childOut) :
         /\ response' = Write(response, ChildBytes(childOut + 1, childOut + n))
         /\ childOut' = childOut + n
         /\ wrote' = wrote + n
    /\ UNCHANGED <<epc, childErr, config, scriptExists, command, dirs,
                   workDir, setupErr, bodyRead, spawned, cause, sentAtExit,
                   counted>>
    /\ UNCHANGED outsideBuf

\* lines 160-163: the child ends and cmd.Run returns.
ServeHTTP_RunReturns ==
    /\ epc = "run"
    /\ \E c \in {"exit0", "exitN", "killed"} :
         /\ cause' = c
         /\ childErr' = RunError(c)
         /\ epc' = IF RunError(c) = "nil" THEN "cleanup" ELSE "failed"
    /\ sentAtExit' = response.headersSent
    /\ UNCHANGED <<response, childOut, wrote, config, scriptExists, command,
                   dirs, workDir, setupErr, bodyRead, spawned, counted>>
    /\ UNCHANGED outsideBuf

\* lines 165-179: the status of the failure, set with X-Error unless the
\* headers were sent.
ServeHTTP_Failed ==
    /\ epc = "failed"
    /\ response' =
          IF ~HeadersSent(response)
          THEN WriteHeader([response EXCEPT !.upstream.xError = TRUE],
                           FailureStatus(childErr))
          ELSE response
    /\ epc' = "cleanup"
    /\ UNCHANGED <<childOut, childErr, wrote, config, scriptExists, command,
                   dirs, workDir, setupErr, bodyRead, spawned, cause,
                   sentAtExit, counted>>
    /\ UNCHANGED outsideBuf

\* line 114: the deferred wh.cleanupTempDir(workDir).
ServeHTTP_Cleanup ==
    /\ epc = "cleanup"
    /\ dirs' = cleanupTempDir(config, dirs, workDir)
    /\ epc' = "flush"
    /\ UNCHANGED <<response, childOut, childErr, wrote, config, scriptExists,
                   command, workDir, setupErr, bodyRead, spawned, cause,
                   sentAtExit, counted>>
    /\ UNCHANGED outsideBuf

\* lines 88-89: the deferred response.flush(), then the deferred
\* countResult (limiters.go, 202-214) with the status of the
\* bufferedResponse; then the server finishes the response, with 200 when no
\* status was written.
ServeHTTP_Flush ==
    /\ epc = "flush"
    /\ response' = [flush(response) EXCEPT
                       !.upstream = UpstreamCommit(@, StatusOK)]
    /\ counted' = flush(response).statusCode
    /\ epc' = "done"
    /\ UNCHANGED <<childOut, childErr, wrote, config, scriptExists, command,
                   dirs, workDir, setupErr, bodyRead, spawned, cause,
                   sentAtExit>>
    /\ UNCHANGED outsideBuf

\* ---- limiters.go: readAttrs, and the gateway that uses the manifest --------

MaxAttrs == 2      \* most attributes a script carries

AsyncModeAuto == "auto"
AsyncModeForced == "forced"
AsyncModeDisabled == "disabled"
AsyncModes == {AsyncModeAuto, AsyncModeForced, AsyncModeDisabled}

AttrAsync == "user.webhook.async"
AttrTimeout == "user.webhook.timeout"
AttrDelay == "user.webhook.delay"
AttrRetries == "user.webhook.retries"
AttrNames == {AttrAsync, AttrTimeout, AttrDelay, AttrRetries}

\* An attribute as readAttrs sees it: its name, whether xattr.Get and the
\* parser succeed on it, and the parsed value. "set" stands for a parsed
\* duration or number that differs from the default "default".
AttrValues(name) ==
    IF name = AttrAsync THEN AsyncModes ELSE {"set"}
Attrs ==
    UNION {{[name |-> n, parses |-> TRUE, value |-> v] : v \in AttrValues(n)}
             \cup {[name |-> n, parses |-> FALSE, value |-> "bad"]} : n \in AttrNames}

\* xattr.List: every attribute once, in the order the file system gives.
AttrLists ==
    {l \in UNION {[1..n -> Attrs] : n \in 0..MaxAttrs} :
        \A i, j \in 1..Len(l) : i # j => l[i].name # l[j].name}

DefaultManifest ==
    [Async |-> AsyncModeAuto, Timeout |-> "default", Delay |-> "default",
     Retries |-> "default"]

\* lines 81-115: the switch on the attribute's name, for a parsed value.
MergeAttr(m, a) ==
    IF a.name = AttrAsync THEN [m EXCEPT !.Async = a.value]
    ELSE IF a.name = AttrTimeout THEN [m EXCEPT !.Timeout = a.value]
    ELSE IF a.name = AttrDelay THEN [m EXCEPT !.Delay = a.value]
    ELSE IF a.name = AttrRetries THEN [m EXCEPT !.Retries = a.value]
    ELSE m

\* lines 80-117: one iteration of the loop of readAttrs, or its return nil.
\* A Get or parse error returns from readAttrs at once.
readAttrs ==
    /\ gpc = "read"
    /\ IF apos > Len(xattrs)
       THEN /\ gpc' = "serve"
            /\ UNCHANGED <<manifest, apos, aerr>>
       ELSE IF xattrs[apos].parses
            THEN /\ manifest' = MergeAttr(manifest, xattrs[apos])
                 /\ apos' = apos + 1
                 /\ UNCHANGED <<gpc, aerr>>
            ELSE /\ aerr' = TRUE
                 /\ gpc' = "serve"
                 /\ UNCHANGED <<manifest, apos>>
    /\ UNCHANGED <<xattrs, query, respStatus, respBody>>
    /\ UNCHANGED outsideAttrs

\* Strings are sequences of one-character strings. The words the query
\* parameter "async" is tried with, each in every mix of upper and lower
\* case (<<>>: the parameter is absent or empty).
QueryWords ==
    {<<>>, <<"t">>, <<"1">>, <<"o", "n">>, <<"o", "k">>,
     <<"t", "r", "u", "e">>, <<"y", "e", "s">>, <<"y">>, <<"y", "e">>,
     <<"n", "o">>, <<"0">>, <<"f">>, <<"o", "f", "f">>}

\* unicode.ToUpper on the characters of QueryWords.
UpperChar(c) ==
    CASE c = "t" -> "T" [] c = "o" -> "O" [] c = "n" -> "N" [] c = "k" -> "K"
      [] c = "r" -> "R" [] c = "u" -> "U" [] c = "e" -> "E" [] c = "y" -> "Y"
      [] c = "s" -> "S" [] c = "f" -> "F" [] OTHER -> c

\* Values of the query parameter "async" that requests carry.
QueryValues ==
    UNION {{[i \in 1..Len(w) |-> IF i \in up THEN UpperChar(w[i]) ELSE w[i]] :
               up \in SUBSET (1..Len(w))} : w \in QueryWords}

\* unicode.ToLower on the characters of QueryValues.
LowerChar(c) ==
    CASE c = "T" -> "t" [] c = "O" -> "o" [] c = "N" -> "n" [] c = "K" -> "k"
      [] c = "R" -> "r" [] c = "U" -> "u" [] c = "E" -> "e" [] c = "Y" -> "y"
      [] c = "S" -> "s" [] c = "F" -> "f" [] OTHER -> c

\* Mutant of ToLower: the value is compared as it came.
KeepCase(v) == v

\* strings.ToLower
ToLower(v) == [i \in 1..Len(v) |-> LowerChar(v[i])]

\* async.go lines 314-321
parseBool(value) ==
    ToLower(value) \in {<<"t">>, <<"1">>, <<"o", "n">>, <<"o", "k">>,
                        <<"t", "r", "u", "e">>, <<"y", "e", "s">>}

\* async.go lines 271-282; a mode that is none of the three is handled by
\* the default branch of the switch.
isAsyncRequest(mode, q) ==
    IF mode = AsyncModeDisabled THEN FALSE
    ELSE IF mode = AsyncModeForced THEN TRUE
    ELSE parseBool(q)

\* AsyncMode is a byte: the three modes and any other value.
ConfigModes == AsyncModes \cup {"other"}

InitMode ==
    /\ configAsync \in ConfigModes
    /\ asyncParam \in QueryValues
    /\ branch = "none"

\* No request is at the choice of the branch.
IdleMode ==
    /\ configAsync = AsyncModeAuto
    /\ asyncParam = <<>>
    /\ branch = "none"

\* async.go line 132: ServeHTTP takes the sync or the async branch.
ServeHTTP_Branch ==
    /\ branch = "none"
    /\ branch' = IF isAsyncRequest(configAsync, asyncParam)
                 THEN "async" ELSE "sync"
    /\ UNCHANGED <<configAsync, asyncParam>>
    /\ UNCHANGED outsideMode

\* The gateway of the revision that carries manifests: an error of readAttrs
\* is logged and the request goes on with the manifest as it is; an async
\* request is acknowledged with 202 and no body, a sync one gets the
\* script's output.
GatewayServe ==
    /\ gpc = "serve"
    /\ IF isAsyncRequest(manifest.Async, query)
       THEN /\ respStatus' = StatusAccepted
            /\ respBody' = ""
       ELSE /\ respStatus' = StatusOK
            /\ respBody' = "output"
    /\ gpc' = "done"
    /\ UNCHANGED <<xattrs, query, manifest, apos, aerr>>
    /\ UNCHANGED outsideAttrs

InitAttrs ==
    /\ xattrs \in AttrLists
    /\ query \in QueryValues
    /\ manifest = DefaultManifest
    /\ apos = 1
    /\ aerr = FALSE
    /\ gpc = "read"
    /\ respStatus = 0
    /\ respBody = ""

\* No request goes through the attribute model.
IdleAttrs ==
    /\ xattrs = <<>>
    /\ query = <<>>
    /\ manifest = DefaultManifest
    /\ apos = 1
    /\ aerr = FALSE
    /\ gpc = "done"
    /\ respStatus = 0
    /\ respBody = ""

\* The async pipeline at rest.
IdleAsync ==
    /\ InitAsync
    /\ queueKind = "unbound"
    /\ Retries = 0

\* ---- runners.go: DirectoryRunner --------------------------------------------

MaxPath == 6       \* longest req.URL.Path, in characters

Separator == "/"
PathChars == {Separator, ".", "a"}

\* Every string of at most n characters of PathChars.
PathsUpTo(n) == UNION {[1..k -> PathChars] : k \in 0..n}

\* strings.Split(s, "/"): the parts between the separators.
Split(s) ==
    LET parts[i \in 0..Len(s)] ==
            IF i = 0 THEN <<<<>>>>
            ELSE IF s[i] = Separator THEN Append(parts[i - 1], <<>>)
            ELSE [parts[i - 1] EXCEPT ![Len(parts[i - 1])] = Append(@, s[i])]
    IN  parts[Len(s)]

\* strings.HasPrefix
HasPrefix(s, prefix) ==
    /\ Len(s) >= Len(prefix)
    /\ SubSeq(s, 1, Len(prefix)) = prefix

\* The components of a rooted path after the lexical processing of
\* filepath.Clean: empty components and "." are dropped, ".." removes the
\* component before it and is dropped at the root.
Resolve(comps) ==
    LET st[i \in 0..Len(comps)] ==
            IF i = 0 THEN <<>>
            ELSE LET c == comps[i]  prev == st[i - 1] IN
                 IF c = <<>> \/ c = <<".">> THEN prev
                 ELSE IF c = <<".", ".">>
                 THEN IF Len(prev) > 0 THEN SubSeq(prev, 1, Len(prev) - 1)
                      ELSE prev
                 ELSE Append(prev, c)
    IN  st[Len(comps)]

\* The rooted path of a sequence of components.
Rooted(comps) ==
    LET str[i \in 0..Len(comps)] ==
            IF i = 0 THEN <<>>
            ELSE str[i - 1] \o <<Separator>> \o comps[i]
    IN  IF Len(comps) = 0 THEN <<Separator>> ELSE str[Len(comps)]

\* filepath.Clean of a rooted path.
Clean(path) == Rooted(Resolve(Split(path)))

\* filepath.Join(dir, path): the non-empty elements joined by the
\* separator, cleaned.
Join(dir, path) ==
    IF Len(path) = 0 THEN Clean(dir)
    ELSE Clean(dir \o <<Separator>> \o path)

\* filepath.Abs of a path that is absolute: the cleaned path.
Abs(path) == Clean(path)

\* filepath.Rel(base, targ) of two cleaned rooted paths: ".." for every
\* component of base after the common ones, then the rest of targ; "." when
\* nothing is left.
Rel(base, targ) ==
    LET b == Resolve(Split(base))
        t == Resolve(Split(targ))
        common == {k \in 0..Len(b) :
                     k <= Len(t) /\ SubSeq(b, 1, k) = SubSeq(t, 1, k)}
        k == CHOOSE x \in common : \A y \in common : y <= x
        ups == [i \in 1..(Len(b) - k) |-> <<".", ".">>]
        comps == ups \o SubSeq(t, k + 1, Len(t))
    IN  IF Len(comps) = 0 THEN <<".">>
        ELSE SubSeq(Rooted(comps), 2, Len(Rooted(comps)))

\* Mutant of ScriptsPrefix: the prefix without the separator.
ScriptsPrefixBare(dir) == dir

\* line 40: dr.ScriptsDir+string(filepath.Separator)
ScriptsPrefix(dir) == dir \o <<Separator>>

\* DirectoryRunner.isPathAllowed, lines 53-69
isPathAllowed(d, scriptPath) ==
    \/ d.AllowDotFiles
    \/ LET parts == Split(Rel(d.ScriptsDir, scriptPath)) IN
         \A i \in 1..Len(parts) : ~HasPrefix(parts[i], <<".">>)

\* DirectoryRunner.Command, lines 33-51: <<>> is nil.
Command(d, path) ==
    LET absScriptPath == Abs(Join(d.ScriptsDir, path)) IN
      IF ~HasPrefix(absScriptPath, ScriptsPrefix(d.ScriptsDir)) THEN <<>>
      ELSE IF ~isPathAllowed(d, absScriptPath) THEN <<>>
      ELSE <<absScriptPath>>

\* main.go, line 101: ScriptsDir is the result of filepath.Abs, an absolute
\* cleaned path; the root directory is one.
ScriptsDirs == {<<"/">>, <<"/", "a">>, <<"/", ".", "a">>}

InitRunner ==
    /\ dr \in [ScriptsDir : ScriptsDirs, AllowDotFiles : BOOLEAN]
    /\ urlPath \in PathsUpTo(MaxPath)
    /\ asked = FALSE
    /\ resolved = <<>>

\* No request is with the runner.
IdleRunner ==
    /\ dr = [ScriptsDir |-> <<"/", "a">>, AllowDotFiles |-> FALSE]
    /\ urlPath = <<>>
    /\ asked = FALSE
    /\ resolved = <<>>

\* wh.runner.Command(req) with a DirectoryRunner.
Runner_Command ==
    /\ ~asked
    /\ asked' = TRUE
    /\ resolved' = Command(dr, urlPath)
    /\ UNCHANGED <<dr, urlPath>>
    /\ UNCHANGED outsideRunner

\* ---- limiters.go: RequestSizeLimit and sizeLimiter --------------------------

MaxLimit == 3      \* largest maxSize
MaxBody == 4       \* longest body, and longest buffer given to Read

StatusRequestEntityTooLarge == 413

\* Read of the body on the connection into a buffer of k bytes (io.Reader):
\* some of the remaining bytes, the end of the body being reported with the
\* last bytes or by the call after them.
SourceRead(rem, k) ==
    IF k = 0 THEN {[n |-> 0, err |-> "nil"]}
    ELSE IF rem = 0 THEN {[n |-> 0, err |-> "EOF"]}
    ELSE {[n |-> n, err |-> "nil"] : n \in 1..(IF k < rem THEN k ELSE rem)}
         \cup (IF rem <= k THEN {[n |-> rem, err |-> "EOF"]} ELSE {})

\* sizeLimiter.Read, lines 40-57, for a buffer of len bytes: the results it
\* can have, each with the limiter and the body afterwards. The first
\* return hands out the named result err, which is nil there.
Read(l, rem, len) ==
    IF l.err # "nil"
    THEN {[n |-> 0, err |-> "nil", sl |-> l, remaining |-> rem]}
    ELSE LET left == l.maxSize - l.consumed
             chunk == IF left < len THEN left ELSE len
         IN  IF left <= 0
             THEN {[n |-> 0, err |-> "TooBig",
                    sl |-> [l EXCEPT !.err = "TooBig"], remaining |-> rem]}
             ELSE {[n |-> r.n, err |-> r.err,
                    sl |-> [l EXCEPT !.err = r.err, !.consumed = @ + r.n],
                    remaining |-> rem - r.n] : r \in SourceRead(rem, chunk)}

NewSizeLimiter(maxSize) == [maxSize |-> maxSize, consumed |-> 0, err |-> "nil"]

InitLimit ==
    /\ sl \in {NewSizeLimiter(m) : m \in 0..MaxLimit}
    /\ lpc = "start"
    /\ bodyLen \in 0..MaxBody
    /\ contentLength \in {-1, bodyLen}
    /\ remaining = bodyLen
    /\ wrapped = FALSE
    /\ received = 0
    /\ readErrs = {}
    /\ afterErr = 0

\* No request is at the size limit.
IdleLimit ==
    /\ sl = NewSizeLimiter(0)
    /\ lpc = "idle"
    /\ bodyLen = 0
    /\ contentLength = 0
    /\ remaining = 0
    /\ wrapped = FALSE
    /\ received = 0
    /\ readErrs = {}
    /\ afterErr = 0

\* RequestSizeLimit, lines 18-29: 413 for a declared length above maxSize,
\* the body wrapped when the length is unknown, then the handler.
RequestSizeLimit_Serve ==
    /\ lpc = "start"
    /\ IF contentLength > sl.maxSize
       THEN /\ lpc' = "rejected"
            /\ UNCHANGED wrapped
       ELSE /\ wrapped' = (contentLength < 0)
            /\ lpc' = "handler"
    /\ UNCHANGED <<sl, contentLength, bodyLen, remaining, received, readErrs,
                   afterErr>>
    /\ UNCHANGED outsideLimit

\* The handler calls request.Body.Read with a buffer of len bytes; after an
\* error it may call once more.
Handler_Read ==
    /\ lpc = "handler"
    /\ readErrs # {} => afterErr = 0
    /\ \E len \in 1..MaxBody :
         \E r \in IF wrapped THEN Read(sl, remaining, len)
                  ELSE {[n |-> s.n, err |-> s.err, sl |-> sl,
                         remaining |-> remaining - s.n] :
                           s \in SourceRead(remaining, len)} :
            /\ sl' = r.sl
            /\ remaining' = r.remaining
            /\ received' = received + r.n
            /\ readErrs' = IF r.err = "nil" THEN readErrs
                           ELSE readErrs \cup {r.err}
    /\ afterErr' = IF readErrs # {} THEN afterErr + 1 ELSE afterErr
    /\ UNCHANGED <<lpc, contentLength, bodyLen, wrapped>>
    /\ UNCHANGED outsideLimit

\* ---- async.go: the spooled request and its replay ---------------------------

MaxTries == 2      \* attempts made from one file
MaxPayload == 2    \* longest body of a spooled request

NoHeader == "<absent>"
DefaultUserAgent == "Go-http-client/1.1"
HeaderNames == {"User-Agent", "X-Attempt", "X-Token"}

\* Values the client gives to a header (NoHeader: it does not send it).
ClientValues(name) ==
    CASE name = "User-Agent" -> {NoHeader, "", "curl"}
      [] name = "X-Attempt" -> {NoHeader, "7"}
      [] name = "X-Token" -> {NoHeader, "t"}

Requests ==
    [Method : {"GET", "POST"},
     Path : {"/a", "/b"},
     Header : {h \in [HeaderNames -> {NoHeader, "", "curl", "7", "t"}] :
                 \A n \in HeaderNames : h[n] \in ClientValues(n)},
     Body : UNION {[1..k -> {1}] : k \in 0..MaxPayload},
     RemoteAddr : {"peer"}]

\* The header lines of a set of names, one token each, in sorted order.
HeaderLines(h, names) ==
    LET order == <<"User-Agent", "X-Attempt", "X-Token">>
        upTo[i \in 0..Len(order)] ==
            IF i = 0 THEN <<>>
            ELSE IF order[i] \in names /\ h[order[i]] # NoHeader
            THEN Append(upTo[i - 1], <<"header", order[i], h[order[i]]>>)
            ELSE upTo[i - 1]
    IN  upTo[Len(order)]

\* net/http Request.Write: the User-Agent it writes is the one of the
\* header, none when that is blank, and its own default when the header
\* has none.
UserAgentLine(h) ==
    LET userAgent == IF h["User-Agent"] # NoHeader THEN h["User-Agent"]
                     ELSE DefaultUserAgent
    IN  IF userAgent # "" THEN <<<<"header", "User-Agent", userAgent>>>>
        ELSE <<>>

\* line 156: req.Write, the wire format of the request: request line,
\* User-Agent, the other headers, the end of the headers, the body.
RequestWrite(r) ==
    <<<<"request", r.Method, r.Path>>>>
    \o UserAgentLine(r.Header)
    \o HeaderLines(r.Header, HeaderNames \ {"User-Agent"})
    \o <<<<"end">>>>
    \o [i \in 1..Len(r.Body) |-> <<"byte", r.Body[i]>>]

\* lines 238-239: http.ReadRequest on the file from its offset: the request
\* read, or an error when no request line is there. The remote address is
\* not part of the wire format and stays empty.
ReadRequest(data, from) ==
    IF from >= Len(data) \/ data[from + 1][1] # "request"
    THEN [error |-> TRUE]
    ELSE LET line == data[from + 1]
             end == CHOOSE i \in (from + 2)..Len(data) :
                      /\ data[i][1] = "end"
                      /\ \A j \in (from + 2)..(i - 1) : data[j][1] = "header"
             value(n) ==
                 IF \E j \in (from + 2)..(end - 1) : data[j][2] = n
                 THEN data[CHOOSE j \in (from + 2)..(end - 1) :
                             data[j][2] = n][3]
                 ELSE NoHeader
         IN  [error |-> FALSE,
              req |-> [Method |-> line[2], Path |-> line[3],
                       Header |-> [n \in HeaderNames |-> value(n)],
                       Body |-> [i \in 1..(Len(data) - end) |->
                                   data[end + i][2]],
                       RemoteAddr |-> ""]]

\* line 234: tmpFile.Seek(0, 0)
Seek(off) == 0

\* part_002 line 130: the CLIENT_ADDR of the child.
ClientAddr(r) == r.RemoteAddr

InitTrip ==
    /\ origReq \in Requests
    /\ spool = <<>>
    /\ offset = 0
    /\ tpc = "spool"
    /\ tries = 0
    /\ seen = <<>>

\* No request is being spooled.
IdleTrip ==
    /\ origReq = [Method |-> "GET", Path |-> "/a",
                  Header |-> [n \in HeaderNames |-> NoHeader], Body |-> <<>>,
                  RemoteAddr |-> "peer"]
    /\ spool = <<>>
    /\ offset = 0
    /\ tpc = "idle"
    /\ tries = 0
    /\ seen = <<>>

\* lines 156-165: the request is written to the temp file and the file is
\* closed; the worker opens it anew (line 258), at offset 0.
Spool_Write ==
    /\ tpc = "spool"
    /\ spool' = RequestWrite(origReq)
    /\ offset' = 0
    /\ tpc' = "replay"
    /\ UNCHANGED <<origReq, tries, seen>>
    /\ UNCHANGED outsideTrip

\* lines 233-247: one attempt: rewind, parse, set X-Attempt, call the
\* handler, which reads the request to its end.
Replay_Attempt ==
    /\ tpc = "replay"
    /\ tries < MaxTries
    /\ LET read == ReadRequest(spool, Seek(offset)) IN
         /\ seen' = Append(seen,
                      IF read.error THEN read
                      ELSE [read EXCEPT !.req.Header["X-Attempt"] =
                              HeaderSet(NoHeader, "n")])
         /\ offset' = IF read.error THEN Seek(offset) ELSE Len(spool)
    /\ tries' = tries + 1
    /\ UNCHANGED <<origReq, spool, tpc>>
    /\ UNCHANGED outsideTrip

\* ------------------------------------------------------------------------
\* runWebhook of cmd/wd/main.go (lines 154-233): the server, the goroutine
\* that closes it, the worker goroutines and the WaitGroup between them.
\* ------------------------------------------------------------------------

MaxSpooled == 2

\* lines 196-216, as runWebhook reaches srv.ListenAndServe: wg.Add(1) for
\* the closing goroutine and one wg.Add(1) per worker.
InitShut ==
    /\ wg = 1 + NumWorkers
    /\ shutCtx = FALSE
    /\ srvClosed = FALSE
    /\ mainpc = "serving"
    /\ closerpc = "ctx"
    /\ runpc = [w \in Workers |-> "pop"]
    /\ spooled \in 0..MaxSpooled
    /\ held = [w \in Workers |-> FALSE]

\* runWebhook is not running.
IdleShut ==
    /\ wg = 0
    /\ shutCtx = FALSE
    /\ srvClosed = FALSE
    /\ mainpc = "idle"
    /\ closerpc = "idle"
    /\ runpc = [w \in Workers |-> "idle"]
    /\ spooled = 0
    /\ held = [w \in Workers |-> FALSE]

\* main.go line 84: signal.NotifyContext cancels the global context, and
\* with it the derived ctx of line 198.
Shut_Signal ==
    /\ mainpc = "serving"
    /\ ~shutCtx
    /\ shutCtx' = TRUE
    /\ UNCHANGED <<wg, srvClosed, mainpc, closerpc, runpc, spooled, held>>
    /\ UNCHANGED outsideShut

\* line 204: <-ctx.Done() in the closing goroutine.
Shut_CloserWoken ==
    /\ mainpc \in {"serving", "returned"}
    /\ closerpc = "ctx"
    /\ shutCtx
    /\ closerpc' = "close"
    /\ UNCHANGED <<wg, shutCtx, srvClosed, mainpc, runpc, spooled, held>>
    /\ UNCHANGED outsideShut

\* line 205: srv.Close(), then the deferred wg.Wait() of line 203 starts.
Shut_CloserClose ==
    /\ mainpc \in {"serving", "returned"}
    /\ closerpc = "close"
    /\ srvClosed' = TRUE
    /\ closerpc' = "wait"
    /\ UNCHANGED <<wg, shutCtx, mainpc, runpc, spooled, held>>
    /\ UNCHANGED outsideShut

\* line 203: the deferred wg.Wait() of the closing goroutine returns when
\* the counter is zero.
Shut_CloserWait ==
    /\ mainpc \in {"serving", "returned"}
    /\ closerpc = "wait"
    /\ wg = 0
    /\ closerpc' = "done"
    /\ UNCHANGED <<wg, shutCtx, srvClosed, mainpc, runpc, spooled, held>>
    /\ UNCHANGED outsideShut

\* lines 199, 216, 231: srv.ListenAndServe returns once the server is
\* closed; the deferred wg.Done() and cancel() run and runWebhook returns.
Shut_ServerClosed ==
    /\ mainpc = "serving"
    /\ srvClosed
    /\ wg' = wg - 1
    /\ shutCtx' = TRUE
    /\ mainpc' = "returned"
    /\ UNCHANGED <<srvClosed, closerpc, runpc, spooled, held>>
    /\ UNCHANGED outsideShut

\* lines 199, 216, 231: srv.ListenAndServe fails to listen and returns its
\* error; the same deferred calls run.
Shut_ListenFails ==
    /\ mainpc = "serving"
    /\ ~srvClosed
    /\ wg' = wg - 1
    /\ shutCtx' = TRUE
    /\ mainpc' = "returned"
    /\ UNCHANGED <<srvClosed, closerpc, runpc, spooled, held>>
    /\ UNCHANGED outsideShut

\* main.go lines 87-97: serve/run return to main, main returns and the
\* process ends with every goroutine where it is.
Shut_Exit ==
    /\ mainpc = "returned"
    /\ mainpc' = "exited"
    /\ UNCHANGED <<wg, shutCtx, srvClosed, closerpc, runpc, spooled, held>>
    /\ UNCHANGED outsideShut

\* async.go lines 190-195: Pop hands out a spooled request.
Shut_Pop(w) ==
    /\ mainpc \in {"serving", "returned"}
    /\ runpc[w] = "pop"
    /\ spooled > 0
    /\ spooled' = spooled - 1
    /\ held' = [held EXCEPT ![w] = TRUE]
    /\ runpc' = [runpc EXCEPT ![w] = "process"]
    /\ UNCHANGED <<wg, shutCtx, srvClosed, mainpc, closerpc>>
    /\ UNCHANGED outsideShut

\* async.go lines 190-193 and main.go lines 210-213: Pop returns the error
\* of the context, Run returns and the deferred wg.Done() runs.
Shut_PopCancelled(w) ==
    /\ mainpc \in {"serving", "returned"}
    /\ runpc[w] = "pop"
    /\ shutCtx
    /\ wg' = wg - 1
    /\ runpc' = [runpc EXCEPT ![w] = "returned"]
    /\ UNCHANGED <<shutCtx, srvClosed, mainpc, closerpc, spooled, held>>
    /\ UNCHANGED outsideShut

\* async.go line 202: processRequestAsync returns.
Shut_Process(w) ==
    /\ mainpc \in {"serving", "returned"}
    /\ runpc[w] = "process"
    /\ runpc' = [runpc EXCEPT ![w] = "remove"]
    /\ UNCHANGED <<wg, shutCtx, srvClosed, mainpc, closerpc, spooled, held>>
    /\ UNCHANGED outsideShut

\* async.go lines 203-204: the file is closed and removed; the loop goes
\* back to Pop.
Shut_Remove(w) ==
    /\ mainpc \in {"serving", "returned"}
    /\ runpc[w] = "remove"
    /\ held' = [held EXCEPT ![w] = FALSE]
    /\ runpc' = [runpc EXCEPT ![w] = "pop"]
    /\ UNCHANGED <<wg, shutCtx, srvClosed, mainpc, closerpc, spooled>>
    /\ UNCHANGED outsideShut

\* ------------------------------------------------------------------------
\* wehbook.go, lines 304-361: the webhookDaemon with a semaphore of
\* Config.Workers permits shared by sync and async requests.
\* ------------------------------------------------------------------------

NumPoolReq == 2    \* requests served by the daemon
MaxPool == 2       \* largest Config.Workers
PoolReqs == 1..NumPoolReq

\* lines 304-318: New leaves Workers positive and the pool unused.
InitPool ==
    /\ poolSize \in 1..MaxPool
    /\ poolCur = 0
    /\ busyWorkers = 0
    /\ hpc = [r \in PoolReqs |-> "acquire"]
    /\ hasync \in [PoolReqs -> BOOLEAN]
    /\ hctx = [r \in PoolReqs |-> FALSE]
    /\ hstatus = [r \in PoolReqs |-> 0]

\* No request is served by this daemon.
IdlePool ==
    /\ poolSize = 1
    /\ poolCur = 0
    /\ busyWorkers = 0
    /\ hpc = [r \in PoolReqs |-> "idle"]
    /\ hasync = [r \in PoolReqs |-> FALSE]
    /\ hctx = [r \in PoolReqs |-> FALSE]
    /\ hstatus = [r \in PoolReqs |-> 0]

\* line 326: the client goes away while the request waits for a permit.
Pool_CancelRequest(r) ==
    /\ hpc[r] = "acquire"
    /\ ~hctx[r]
    /\ hctx' = [hctx EXCEPT ![r] = TRUE]
    /\ UNCHANGED <<poolSize, poolCur, busyWorkers, hpc, hasync, hstatus>>
    /\ UNCHANGED outsidePool

\* line 327: wh.pool.Acquire(ctx, 1) takes a free permit.
Pool_Acquire(r) ==
    /\ hpc[r] = "acquire"
    /\ poolCur < poolSize
    /\ poolCur' = poolCur + 1
    /\ hpc' = [hpc EXCEPT ![r] = "acquired"]
    /\ UNCHANGED <<poolSize, busyWorkers, hasync, hctx, hstatus>>
    /\ UNCHANGED outsidePool

\* lines 327-331: no permit is free and the context is done: Acquire
\* returns its error, the client gets 500 and no permit was taken.
Pool_AcquireFails(r) ==
    /\ hpc[r] = "acquire"
    /\ poolCur = poolSize
    /\ hctx[r]
    /\ hstatus' = [hstatus EXCEPT ![r] = StatusInternalServerError]
    /\ hpc' = [hpc EXCEPT ![r] = "done"]
    /\ UNCHANGED <<poolSize, poolCur, busyWorkers, hasync, hctx>>
    /\ UNCHANGED outsidePool

\* lines 332-334: AddBusyWorker(1), then the branch on isAsyncRequest.
Pool_AddBusyWorker(r) ==
    /\ hpc[r] = "acquired"
    /\ busyWorkers' = busyWorkers + 1
    /\ hpc' = [hpc EXCEPT ![r] = IF hasync[r] THEN "tempfile" ELSE "sync"]
    /\ UNCHANGED <<poolSize, poolCur, hasync, hctx, hstatus>>
    /\ UNCHANGED outsidePool

\* lines 335-338: processRequest answers the client; Release(1) and
\* AddBusyWorker(-1) follow.
Pool_ProcessSync(r) ==
    /\ hpc[r] = "sync"
    /\ \E code \in {StatusOK, StatusBadGateway} :
         hstatus' = [hstatus EXCEPT ![r] = code]
    /\ poolCur' = poolCur - 1
    /\ busyWorkers' = busyWorkers - 1
    /\ hpc' = [hpc EXCEPT ![r] = "done"]
    /\ UNCHANGED <<poolSize, hasync, hctx>>
    /\ UNCHANGED outsidePool

\* line 340: ioutil.TempFile succeeds.
Pool_TempFile(r) ==
    /\ hpc[r] = "tempfile"
    /\ hpc' = [hpc EXCEPT ![r] = "write"]
    /\ UNCHANGED <<poolSize, poolCur, busyWorkers, hasync, hctx, hstatus>>
    /\ UNCHANGED outsidePool

\* lines 340-345: ioutil.TempFile fails: 500 and return.
Pool_TempFileFails(r) ==
    /\ hpc[r] = "tempfile"
    /\ hstatus' = [hstatus EXCEPT ![r] = StatusInternalServerError]
    /\ hpc' = [hpc EXCEPT ![r] = "done"]
    /\ UNCHANGED <<poolSize, poolCur, busyWorkers, hasync, hctx>>
    /\ UNCHANGED outsidePool

\* line 347: req.Write(tmpFile) succeeds.
Pool_Write(r) ==
    /\ hpc[r] = "write"
    /\ hpc' = [hpc EXCEPT ![r] = "respond"]
    /\ UNCHANGED <<poolSize, poolCur, busyWorkers, hasync, hctx, hstatus>>
    /\ UNCHANGED outsidePool

\* lines 347-351: req.Write(tmpFile) fails: 500 and return.
Pool_WriteFails(r) ==
    /\ hpc[r] = "write"
    /\ hstatus' = [hstatus EXCEPT ![r] = StatusInternalServerError]
    /\ hpc' = [hpc EXCEPT ![r] = "done"]
    /\ UNCHANGED <<poolSize, poolCur, busyWorkers, hasync, hctx>>
    /\ UNCHANGED outsidePool

\* lines 353-354: 204 goes to the client and the goroutine is started;
\* ServeHTTP returns.
Pool_Respond(r) ==
    /\ hpc[r] = "respond"
    /\ hstatus' = [hstatus EXCEPT ![r] = StatusNoContent]
    /\ hpc' = [hpc EXCEPT ![r] = "background"]
    /\ UNCHANGED <<poolSize, poolCur, busyWorkers, hasync, hctx>>
    /\ UNCHANGED outsidePool

\* lines 354-360: the goroutine runs the attempts, removes the file, then
\* Release(1) and AddBusyWorker(-1).
Pool_Background(r) ==
    /\ hpc[r] = "background"
    /\ poolCur' = poolCur - 1
    /\ busyWorkers' = busyWorkers - 1
    /\ hpc' = [hpc EXCEPT ![r] = "done"]
    /\ UNCHANGED <<poolSize, hasync, hctx, hstatus>>
    /\ UNCHANGED outsidePool

Init == InitAsync /\ IdleAttrs /\ IdleSync /\ IdleMode /\ IdleBuf
    /\ IdleRunner /\ IdleLimit /\ IdleTrip /\ IdleShut /\ IdlePool

Next ==
    \/ \E r \in Reqs : ServeHTTP_TempFile(r)
    \/ \E r \in Reqs : ServeHTTP_Write(r)
    \/ \E r \in Reqs : ServeHTTP_Close(r)
    \/ \E r \in Reqs : ServeHTTP_PushUnbound(r)
    \/ \E r \in Reqs : ServeHTTP_NotifyUnbound(r)
    \/ \E r \in Reqs : ServeHTTP_PushLimited(r)
    \/ \E r \in Reqs : ServeHTTP_PushCancelled(r)
    \/ \E r \in Reqs : ServeHTTP_Ack(r)
    \/ \E r \in Reqs : CancelRequest(r)
    \/ \E w \in Workers : Run_PopUnbound(w)
    \/ \E w \in Workers : Run_PopWake(w)
    \/ \E w \in Workers : Run_PopWaitCancelled(w)
    \/ \E w \in Workers : Run_PopLimited(w)
    \/ \E w \in Workers : Run_PopLimitedCancelled(w)
    \/ \E w \in Workers : Run_Dec(w)
    \/ \E w \in Workers : openStoredRequestFile(w)
    \/ \E w \in Workers : processRequestAsyncAttempt(w)
    \/ \E w \in Workers : processRequestAsync_Delay(w)
    \/ \E w \in Workers : processRequestAsync_Cancelled(w)
    \/ \E w \in Workers : Run_Cleanup(w)
    \/ Cancel

Spec == Init /\ [][Next]_vars

NextAttrs ==
    \/ readAttrs
    \/ GatewayServe

AttrsInit == InitAttrs /\ IdleAsync /\ IdleSync /\ IdleMode /\ IdleBuf
    /\ IdleRunner /\ IdleLimit /\ IdleTrip /\ IdleShut /\ IdlePool

SpecAttrs == AttrsInit /\ [][NextAttrs]_vars

NextSync ==
    \/ \E r \in SyncReqs : ServeHTTP_Acquire(r)
    \/ \E r \in SyncReqs : ServeHTTP_AcquireCancelled(r)
    \/ \E r \in SyncReqs : ServeHTTP_Return(r)
    \/ \E r \in SyncReqs : CancelSync(r)

SyncInit == InitSync /\ IdleAsync /\ IdleAttrs /\ IdleMode /\ IdleBuf
    /\ IdleRunner /\ IdleLimit /\ IdleTrip /\ IdleShut /\ IdlePool

SpecSync == SyncInit /\ [][NextSync]_vars

NextMode == ServeHTTP_Branch

ModeInit == InitMode /\ IdleAsync /\ IdleAttrs /\ IdleSync /\ IdleBuf
    /\ IdleRunner /\ IdleLimit /\ IdleTrip /\ IdleShut /\ IdlePool

SpecMode == ModeInit /\ [][NextMode]_vars

NextBuf ==
    \/ ServeHTTP_Command
    \/ ServeHTTP_TempDir
    \/ ServeHTTP_SetCreds
    \/ ServeHTTP_ReadBody
    \/ ServeHTTP_Run
    \/ Child_Write
    \/ ServeHTTP_RunReturns
    \/ ServeHTTP_Failed
    \/ ServeHTTP_Cleanup
    \/ ServeHTTP_Flush

BufInit == InitBuf /\ IdleAsync /\ IdleAttrs /\ IdleSync /\ IdleMode
    /\ IdleRunner /\ IdleLimit /\ IdleTrip /\ IdleShut /\ IdlePool

SpecBuf == BufInit /\ [][NextBuf]_vars

NextRunner == Runner_Command

RunnerInit == InitRunner /\ IdleAsync /\ IdleAttrs /\ IdleSync /\ IdleMode
    /\ IdleBuf /\ IdleLimit /\ IdleTrip /\ IdleShut /\ IdlePool

SpecRunner == RunnerInit /\ [][NextRunner]_vars

NextLimit ==
    \/ RequestSizeLimit_Serve
    \/ Handler_Read

LimitInit == InitLimit /\ IdleAsync /\ IdleAttrs /\ IdleSync /\ IdleMode
    /\ IdleBuf /\ IdleRunner /\ IdleTrip /\ IdleShut /\ IdlePool

SpecLimit == LimitInit /\ [][NextLimit]_vars

NextTrip ==
    \/ Spool_Write
    \/ Replay_Attempt

TripInit == InitTrip /\ IdleAsync /\ IdleAttrs /\ IdleSync /\ IdleMode
    /\ IdleBuf /\ IdleRunner /\ IdleLimit /\ IdleShut /\ IdlePool

SpecTrip == TripInit /\ [][NextTrip]_vars

NextShut ==
    \/ Shut_Signal
    \/ Shut_CloserWoken
    \/ Shut_CloserClose
    \/ Shut_CloserWait
    \/ Shut_ServerClosed
    \/ Shut_ListenFails
    \/ Shut_Exit
    \/ \E w \in Workers : Shut_Pop(w)
    \/ \E w \in Workers : Shut_PopCancelled(w)
    \/ \E w \in Workers : Shut_Process(w)
    \/ \E w \in Workers : Shut_Remove(w)

ShutInit == InitShut /\ IdleAsync /\ IdleAttrs /\ IdleSync /\ IdleMode
    /\ IdleBuf /\ IdleRunner /\ IdleLimit /\ IdleTrip /\ IdlePool

SpecShut == ShutInit /\ [][NextShut]_vars

NextPool ==
    \/ \E r \in PoolReqs : Pool_CancelRequest(r)
    \/ \E r \in PoolReqs : Pool_Acquire(r)
    \/ \E r \in PoolReqs : Pool_AcquireFails(r)
    \/ \E r \in PoolReqs : Pool_AddBusyWorker(r)
    \/ \E r \in PoolReqs : Pool_ProcessSync(r)
    \/ \E r \in PoolReqs : Pool_TempFile(r)
    \/ \E r \in PoolReqs : Pool_TempFileFails(r)
    \/ \E r \in PoolReqs : Pool_Write(r)
    \/ \E r \in PoolReqs : Pool_WriteFails(r)
    \/ \E r \in PoolReqs : Pool_Respond(r)
    \/ \E r \in PoolReqs : Pool_Background(r)

PoolInit ==
    InitPool /\ IdleAsync /\ IdleAttrs /\ IdleSync /\ IdleMode /\ IdleBuf
    /\ IdleRunner /\ IdleLimit /\ IdleTrip /\ IdleShut

SpecPool == PoolInit /\ [][NextPool]_vars

\* ======================= claims ==========================================

Range(q) == {q[i] : i \in 1..Len(q)}

C2_NoDuplicationNoInvention ==
    /\ \A i \in 1..Len(popped) : popped[i] \in pushed
    /\ \A i, j \in 1..Len(popped) : i # j => popped[i] # popped[j]

\* C2 witness: two workers each got a value, pushed by two Push calls that
\* overlapped (neither returned before the other started).
C2_Witness ==
    /\ popRes[1].val # 0
    /\ popRes[2].val # 0
    /\ popRes[1].val # popRes[2].val
    /\ hb = {}

\* No request handler is running, every worker has returned from Run and the
\* workers' context is cancelled.
Terminal ==
    /\ ctxDone
    /\ \A w \in Workers : wpc[w] = "returned"
    /\ \A r \in Reqs : rpc[r] \in {"start", "done"}

\* C3: in every terminal state after a shutdown no spooled request file
\* remains on disk.
C3_NoSpoolFileLeft ==
    Terminal => disk = {}

\* C4: a worker that gives up on a file it cannot open (Run leaves
\* openStoredRequestFile for the next Pop) has deleted that file.
C4_UnprocessableFileDeleted ==
    [][\A w \in Workers :
          (wpc[w] = "open" /\ wpc'[w] = "pop") => wfile[w] \notin disk']_vars

\* C5: on the unbounded queue a Pop blocks only while no item is available:
\* whenever the list holds an item and an uncancelled Pop waits on notify,
\* the wake-up is on its way (a token is in notify, a Push is about to send
\* one, or a Pop call is at its locked check and will take an item).
C5_NoLostWakeup ==
    (/\ queueKind = "unbound"
     /\ content # <<>>
     /\ ~ctxDone
     /\ \E w \in Workers : wpc[w] = "wait")
    => \/ notify = 1
       \/ \E r \in Reqs : rpc[r] = "notify"
       \/ \E w \in Workers : wpc[w] = "pop"

\* C6: a Pop that returns the cancellation error removed nothing (the step
\* that returns it leaves the queue as it is, and every value ever enqueued
\* is still queued or was returned by a Pop), and no Pop returns both a
\* value and an error; for both queues.
C6_CancelledPopRemovesNothing ==
    /\ [](\A w \in Workers : ~(popRes[w].val # 0 /\ popRes[w].err # "nil"))
    /\ [](pushed = Range(content) \cup Range(popped))
    /\ [][\A w \in Workers :
            (popRes'[w] # popRes[w] /\ popRes'[w].err = "canceled")
                => content' = content]_vars

\* C6 witness: a Pop has returned the cancellation error while the queue
\* held an item.
C6_Witness ==
    \E w \in Workers : popRes[w].err = "canceled" /\ content # <<>>

\* C7: the Limited queue never holds more than its size; a Push completes
\* with nil only when the queue is below its size and with the cancellation
\* error only when the pusher's context is cancelled; a Push that returned
\* the error has not enqueued its value.
C7_BoundedPushBlocksAtCapacity ==
    /\ [](queueKind = "limited" => Len(content) <= QueueCap)
    /\ [](\A r \in Reqs : pushRes[r] = "canceled" => r \notin pushed)
    /\ [][queueKind = "limited" =>
            \A r \in Reqs :
                (pushRes[r] = "none" /\ pushRes'[r] # "none")
                    => IF pushRes'[r] = "nil"
                       THEN Len(content) < QueueCap
                       ELSE rctx[r] /\ content' = content]_vars

\* C7 witness: a Push gave up on a full Limited queue.
C7_Witness ==
    /\ queueKind = "limited"
    /\ Len(content) = QueueCap
    /\ \E r \in Reqs : pushRes[r] = "canceled"

\* C8: when the spooler fails (temp file creation, serialization, close or
\* push), the temp file does not exist afterwards, nothing was enqueued for
\* the request, the request counter was incremented once, with
\* dropped=true, and the client got 500.
C8_SpoolFailureDropsRequest ==
    \A r \in Reqs :
        spoolErr[r] # "none" =>
            /\ rpc[r] = "done"
            /\ r \notin disk
            /\ r \notin pushed
            /\ r \notin Range(content)
            /\ asyncRequestsNum[r][TRUE] = 1
            /\ asyncRequestsNum[r][FALSE] = 0
            /\ status[r] = 500

\* C8 witness: a push was aborted by the request's cancellation.
C8_Witness ==
    \E r \in Reqs : spoolErr[r] = "push" /\ fileState[r] = "closed"

C10_ForcedAttrIsAsync ==
    (/\ gpc = "done"
     /\ query = <<>>
     /\ \E i \in 1..Len(xattrs) :
           xattrs[i] = [name |-> AttrAsync, parses |-> TRUE,
                        value |-> AsyncModeForced])
    => respStatus = 202 /\ respBody = ""

\* The sink of an attempt that reached the handler holds a status that is
\* neither 0 nor 2xx.
SinkFailed(s) == s.invoked /\ s.status # 0 /\ s.status \notin 200..299

\* The sink of an attempt holds 0 or a 2xx status.
SinkSucceeded(s) == s.invoked /\ (s.status = 0 \/ s.status \in 200..299)

\* Every attempt the worker has made at its file reached the handler.
EveryAttemptReplayed(w) == Len(seenXAttempt[w]) = wi[w] + 1

C12_StopAtFirstSuccess ==
    /\ [](\A w \in Workers :
            (wpc[w] \in {"attempt", "retrywait"} /\ res[w] # NoResult)
                => ~SinkSucceeded(res[w]))
    /\ [][\A w \in Workers :
            (wpc[w] = "attempt" /\ wpc'[w] # "attempt") =>
                IF SinkSucceeded(res'[w])
                THEN wpc'[w] = "cleanup"
                ELSE IF wi[w] < Retries
                     THEN wpc'[w] = "retrywait"
                     ELSE wpc'[w] = "cleanup"]_vars
    /\ [][\A w \in Workers :
            (wpc[w] = "retrywait" /\ wpc'[w] # "retrywait") =>
                \/ wpc'[w] = "attempt" /\ wi'[w] = wi[w] + 1
                \/ wpc'[w] = "cleanup" /\ ctxDone]_vars

\* C12 witness: an item succeeded at its second attempt, after a 3xx.
C12_Witness ==
    \E w \in Workers :
        /\ wpc[w] = "cleanup"
        /\ seenXAttempt[w] = <<1, 2>>
        /\ SinkSucceeded(res[w])
        /\ res[w].status = 0

C14_NoAttemptAfterCancelledWait ==
    [][\A w \in Workers :
          (waitCancelled[w] /\ wpc[w] = "attempt" /\ wpc'[w] # "attempt")
              => attempts' = attempts]_vars

\* The number of sync permits the configuration asks for.
PermitLimit == IF configWorkers <= 0 THEN 2 * numCPU ELSE configWorkers

\* C15: at most Workers (2 x NumCPU when Workers <= 0) sync requests are
\* inside the wrapped handler; a request that got a permit releases it
\* exactly once when its handler returns, and all permits are free when no
\* sync request is inside the handler.
C15_SyncPermitsBoundHandlers ==
    /\ syncWorkers.size = PermitLimit
    /\ Cardinality({r \in SyncReqs : spc[r] = "handler"}) <= PermitLimit
    /\ syncWorkers.cur = Cardinality({r \in SyncReqs : spc[r] = "handler"})
    /\ \A r \in SyncReqs :
          /\ spc[r] = "handler" => released[r] = 0
          /\ (spc[r] = "done" /\ ~acquireErr[r]) => released[r] = 1
    /\ (\A r \in SyncReqs : spc[r] # "handler")
          => syncWorkers.size - syncWorkers.cur = PermitLimit

\* C15 witness: with Workers <= 0 all 2 x NumCPU permits are taken and a
\* request whose context is live waits for one.
C15_Witness ==
    /\ configWorkers <= 0
    /\ syncWorkers.cur = 2 * numCPU
    /\ \E r \in SyncReqs : spc[r] = "acquire" /\ ~sctx[r]

\* C16: a sync request whose Acquire failed on the cancellation got 500, its
\* handler was never invoked and no permit was released for it (the permits
\* taken are those of the requests inside the handler).
C16_CancelledAcquireBailsOut ==
    \A r \in SyncReqs :
        acquireErr[r] =>
            /\ spc[r] = "done"
            /\ sstatus[r] = 500
            /\ invoked[r] = 0
            /\ released[r] = 0
            /\ syncWorkers.cur = Cardinality({q \in SyncReqs : spc[q] = "handler"})

\* C16 witness: a request gave up waiting while every permit was taken.
C16_Witness ==
    /\ syncWorkers.cur = syncWorkers.size
    /\ \E r \in SyncReqs : acquireErr[r] /\ sctx[r]

\* Pairs of an upper-case and a lower-case form of one letter.
CasePairs ==
    {{"t", "T"}, {"o", "O"}, {"n", "N"}, {"k", "K"}, {"r", "R"}, {"u", "U"},
     {"e", "E"}, {"y", "Y"}, {"s", "S"}, {"f", "F"}}

\* Two strings are equal up to the case of their letters.
SameIgnoringCase(a, b) ==
    /\ Len(a) = Len(b)
    /\ \A i \in 1..Len(a) : a[i] = b[i] \/ {a[i], b[i]} \in CasePairs

\* The values spec section 4.3 lists for the parameter "async".
TruthyWords ==
    {<<"t">>, <<"1">>, <<"o", "n">>, <<"o", "k">>, <<"t", "r", "u", "e">>,
     <<"y", "e", "s">>}

C18_ReadmeValuesActivateAsync ==
    (/\ branch # "none"
     /\ configAsync = AsyncModeAuto
     /\ asyncParam \in TruthyWords \cup {<<"y">>})
    => branch = "async"

\* Nothing has reached the server's writer: no status, no body, no call.
UpstreamUntouched ==
    /\ response.upstream.status = 0
    /\ response.upstream.writes = <<>>
    /\ response.upstream.headerCalls = 0

\* C19: with a positive buffer size nothing goes upstream, neither status
\* nor body, while flush has not been called and fewer bytes than the soft
\* limit were written; WriteHeader only records the status.
C19_NothingUpstreamBeforeFlush ==
    (/\ response.bufferSize > 0
     /\ epc \notin {"idle", "done"}
     /\ wrote < response.bufferSize)
    => /\ UpstreamUntouched
       /\ ~response.headersSent
       /\ Len(response.buffer) = wrote

\* C19 witness: the executor has recorded 502 after the child wrote less
\* than the limit, and flush has not run yet.
C19_Witness ==
    /\ epc = "flush"
    /\ response.bufferSize > 0
    /\ response.statusCode = 502
    /\ wrote > 0
    /\ wrote < response.bufferSize

\* The status the executor chooses once the child has finished.
ChosenStatus ==
    CASE childErr = "nil" -> 200
      [] childErr = "exit" -> 502
      [] childErr = "start" -> 502
      [] childErr = "deadline" -> 504
      [] childErr = "notexist" -> 404
      [] OTHER -> 0

\* The client got the status the executor chose, with X-Error on a failure.
ClientGotChosenStatus ==
    /\ response.upstream.status = ChosenStatus
    /\ childErr # "nil" => response.upstream.sentXError

\* C20 as stated: when the whole body is no larger than the soft limit
\* (limit > 0), the client sees the status the executor chose after the
\* child finished.
C20_ChosenStatusUpToLimit ==
    (/\ epc = "done"
     /\ childErr # "none"
     /\ response.bufferSize > 0
     /\ wrote <= response.bufferSize)
    => ClientGotChosenStatus

\* C20 amended: when the whole body is smaller than the soft limit
\* (limit > 0), the client sees the status the executor chose after the
\* child finished.
C20_ChosenStatusBelowLimit ==
    (/\ epc = "done"
     /\ childErr # "none"
     /\ response.bufferSize > 0
     /\ wrote < response.bufferSize)
    => ClientGotChosenStatus

\* C20 witness: a child that wrote less than the limit and failed; the
\* client got 502 and the output.
C20_Witness ==
    /\ epc = "done"
    /\ childErr = "exit"
    /\ wrote > 0
    /\ wrote < response.bufferSize
    /\ response.upstream.status = 502
    /\ response.upstream.writes = <<ChildBytes(1, wrote)>>

\* Writes go upstream as they come: the headers were sent, or the
\* bufferedResponse does not buffer.
Passthrough == response.headersSent \/ response.bufferSize <= 0

\* One step of a response that obeys C21.
C21_Step ==
    /\ (Passthrough /\ wrote' > wrote)
       => /\ response'.buffer = <<>>
          /\ Len(response'.upstream.writes) = Len(response.upstream.writes) + 1
          /\ Len(response'.upstream.writes[Len(response'.upstream.writes)])
                = wrote' - wrote
          /\ epc = "run"
             => response'.upstream.writes[Len(response'.upstream.writes)]
                  = ChildBytes(childOut + 1, childOut')
    /\ Passthrough => response'.buffer = <<>>
    /\ response.headersSent => response'.headersSent
    /\ response'.upstream.headerCalls <= 1
    /\ response.upstream.status # 0
       => /\ response'.upstream.status = response.upstream.status
          /\ response'.upstream.sentXError = response.upstream.sentXError

\* C21: once the bufferedResponse has flushed, or when its size is not
\* positive, every Write goes upstream at once as one write and nothing is
\* buffered again; the status and the headers go upstream at most once.
C21_UnbufferedAfterFlush == [][C21_Step]_vars

\* C21 witness: a child whose output was flushed at the limit and that
\* wrote again afterwards.
C21_Witness ==
    /\ epc = "run"
    /\ response.bufferSize > 0
    /\ response.headersSent
    /\ Len(response.upstream.writes) >= 2
    /\ response.buffer = <<>>

\* The bytes of a sequence of writes, in order.
Concat(ws) ==
    LET upTo[i \in 0..Len(ws)] ==
            IF i = 0 THEN <<>> ELSE upTo[i - 1] \o ws[i]
    IN  upTo[Len(ws)]

\* The request of a child that exited with status 0 has returned: the
\* client has 200 and the child's output, byte for byte.
C22_Delivered ==
    (epc = "done" /\ cause = "exit0")
    => /\ response.upstream.status = StatusOK
       /\ Concat(response.upstream.writes) = ChildBytes(1, childOut)
       /\ response.sent = childOut
       /\ response.buffer = <<>>

\* While the child runs, what went upstream and what is buffered are
\* together the child's output so far.
C22_NothingLost ==
    epc = "run"
    => Concat(response.upstream.writes) \o response.buffer
         = ChildBytes(1, childOut)

\* A step that empties the buffer puts the buffered bytes upstream as the
\* head of one write.
C22_FlushStep ==
    (Len(response.buffer) > 0 /\ response'.buffer = <<>>)
    => LET ws == response'.upstream.writes IN
         /\ Len(ws) = Len(response.upstream.writes) + 1
         /\ Len(ws[Len(ws)]) >= Len(response.buffer)
         /\ SubSeq(ws[Len(ws)], 1, Len(response.buffer)) = response.buffer

\* C22: when the child exits with status 0 the client receives 200 and
\* exactly the bytes the child wrote, in order, for every buffer size and
\* every splitting into writes; buffered bytes go upstream in one write
\* before any later write.
C22_SuccessDeliversStdout ==
    /\ [](C22_Delivered /\ C22_NothingLost)
    /\ [][C22_FlushStep]_vars

\* C22 witness: a child that wrote across the limit in several writes and
\* exited with status 0.
C22_Witness ==
    /\ epc = "done"
    /\ cause = "exit0"
    /\ response.bufferSize > 1
    /\ childOut > response.bufferSize
    /\ Len(response.upstream.writes) >= 2
    /\ Len(response.upstream.writes[1]) >= 2

\* C23 as stated: a request answered with a 2xx status had a child that
\* exited with status 0.
C23_SuccessMeansExitZero ==
    (epc = "done" /\ response.upstream.status \in 200..299)
    => cause = "exit0"

\* C23 amended: a request answered with a 2xx status, whose response had
\* not flushed before the child finished, had a child that exited with
\* status 0.
C23_UnflushedSuccessMeansExitZero ==
    (/\ epc = "done"
     /\ response.upstream.status \in 200..299
     /\ ~sentAtExit)
    => cause = "exit0"

\* C23 witness: a child that wrote less than the limit and exited with
\* status 0; the response was flushed on return, with 200.
C23_Witness ==
    /\ epc = "done"
    /\ response.upstream.status = StatusOK
    /\ ~sentAtExit
    /\ cause = "exit0"
    /\ response.bufferSize > 0
    /\ childOut > 0

\* The status C24 gives to the way the run of the child failed.
CauseStatus ==
    CASE cause \in {"killed", "ctxdone"} -> StatusGatewayTimeout
      [] cause = "notexist" -> StatusNotFound
      [] OTHER -> StatusBadGateway

\* C24: when the child fails to start or does not exit with status 0, and
\* the response has not flushed, the client gets X-Error and the status 504
\* when the cause is the execution deadline, 404 when the executable does
\* not exist, 502 otherwise.
C24_FailureStatusByCause ==
    (/\ epc = "done"
     /\ cause \notin {"none", "exit0"}
     /\ ~sentAtExit)
    => /\ response.upstream.sentXError
       /\ response.upstream.status = CauseStatus

\* A step taken after the child failed with the response already flushed.
C25_Step ==
    (epc \in {"failed", "cleanup", "flush"} /\ sentAtExit
       /\ childErr \notin {"none", "nil"})
    => /\ response'.upstream = response.upstream
       /\ response'.statusCode = response.statusCode
       /\ ~response'.upstream.xError

\* The request has returned: the metrics and the client have the status
\* committed before the failure, without X-Error.
C25_Returned ==
    (epc = "done" /\ sentAtExit /\ childErr \notin {"none", "nil"})
    => /\ counted = response.upstream.status
       /\ counted = StatusOK
       /\ ~response.upstream.xError
       /\ ~response.upstream.sentXError

\* C25: when the child fails after the response has flushed, the committed
\* status stays, for the client and for the metrics, and no X-Error header
\* is set.
C25_FlushedFailureKeepsStatus ==
    /\ []C25_Returned
    /\ [][C25_Step]_vars

\* C25 witness: a child that filled the buffer, then exited with a status
\* other than 0; the request has returned with the committed 200.
C25_Witness ==
    /\ epc = "done"
    /\ sentAtExit
    /\ cause = "exitN"
    /\ response.bufferSize > 0
    /\ counted = StatusOK
    /\ response.upstream.status = StatusOK

\* C26: with TempDir set, the temp dir of the request is gone once
\* ServeHTTP has returned, whatever the return path; with TempDir unset no
\* temp dir is made and the configured work dir is never removed.
C26_TempDirRemoved ==
    /\ (epc = "done" /\ config.TempDir) => dirs.tmp # "exists"
    /\ ~config.TempDir => (dirs.tmp = "none" /\ dirs.work # "removed")

\* C26 witness: the temp dir was made, setting the credentials failed, and
\* the request has returned with the temp dir removed.
C26_Witness ==
    /\ epc = "done"
    /\ config.TempDir
    /\ setupErr.step = "creds"
    /\ dirs.tmp = "removed"

\* A step of the setup failed: the temp dir, its chown, or the credentials.
SetupFailed == setupErr.step \in {"mkdir", "chown", "creds"}

\* C27 as stated: a setup failure before the spawn always yields 500, and
\* no child is started.
C27_SetupFailureIs500 ==
    (epc = "done" /\ SetupFailed)
    => /\ response.upstream.status = StatusInternalServerError
       /\ ~spawned

\* C27 amended: a setup failure before the spawn yields 500, or 404 when
\* making or chowning the temp dir failed because a file does not exist,
\* and no child is started.
C27_SetupFailureIs500Or404 ==
    (epc = "done" /\ SetupFailed)
    => /\ response.upstream.status =
             IF setupErr.step \in {"mkdir", "chown"} /\ setupErr.notExist
             THEN StatusNotFound
             ELSE StatusInternalServerError
       /\ ~spawned
       /\ cause = "none"

\* C27 witness: the chown of the temp dir failed though the script exists;
\* the request has returned with 500 and without a child.
C27_Witness ==
    /\ epc = "done"
    /\ setupErr.step = "chown"
    /\ ~setupErr.notExist
    /\ scriptExists
    /\ response.upstream.status = StatusInternalServerError
    /\ ~spawned

\* C28: when the executable of the resolved command does not exist, the
\* answer is 404, whatever TempDir and RunAsFileOwner are (requests that
\* fail on the temp dir root or on the body before the executable is looked
\* at are left aside).
C28_MissingExecutableIs404 ==
    (/\ epc = "done"
     /\ command = "found"
     /\ ~scriptExists
     /\ setupErr.step \notin {"mkdir", "body"})
    => response.upstream.status = StatusNotFound

\* C29: in the caching payload modes a failure to read the body yields 400
\* and no child is spawned; in stdin mode the executor never reads the body
\* into memory.
C29_PayloadReadFailureIs400 ==
    /\ bodyRead = "failed"
       => /\ config.ArgType \in {ArgTypeParam, ArgTypeEnv}
          /\ ~spawned
          /\ epc = "done" => response.upstream.status = StatusBadRequest
    /\ config.ArgType = ArgTypeStdin => bodyRead = "no"
    /\ (spawned /\ config.ArgType # ArgTypeStdin) => bodyRead = "cached"

\* C29 witness: in env mode reading the body failed; the request has
\* returned with 400 and without a child.
C29_Witness ==
    /\ epc = "done"
    /\ config.ArgType = ArgTypeEnv
    /\ bodyRead = "failed"
    /\ response.upstream.status = StatusBadRequest
    /\ ~spawned

\* C30: when the runner returns no command the answer is 404 and nothing
\* else happens: no temp dir, no child, no read of the body.
C30_NoCommandNoSideEffects ==
    command = "none"
    => /\ dirs.tmp = "none"
       /\ dirs.work # "removed"
       /\ workDir = ""
       /\ ~spawned
       /\ cause = "none"
       /\ bodyRead = "no"
       /\ epc \in {"flush", "done"}
       /\ epc = "done" => response.upstream.status = StatusNotFound

\* C30 witness: a request without a command has returned with 404.
C30_Witness ==
    /\ epc = "done"
    /\ command = "none"
    /\ response.upstream.status = StatusNotFound
    /\ counted = StatusNotFound
    /\ config.TempDir
    /\ config.ArgType = ArgTypeParam

\* The components of ScriptsDir, and of the path the request resolves to.
DirComps == Resolve(Split(dr.ScriptsDir))
ResolvedComps == Resolve(Split(dr.ScriptsDir) \o Split(urlPath))

\* The request resolves to a path below ScriptsDir, by components.
InsideScriptsDir ==
    /\ Len(ResolvedComps) > Len(DirComps)
    /\ SubSeq(ResolvedComps, 1, Len(DirComps)) = DirComps

\* C31: the directory runner returns no command, or one path that has
\* ScriptsDir and the separator as a strict prefix; a request that resolves
\* outside ScriptsDir, or to ScriptsDir itself, gets no command.
C31_CommandInsideScriptsDir ==
    asked
    => /\ \/ resolved = <<>>
          \/ /\ Len(resolved) = 1
             /\ HasPrefix(resolved[1], dr.ScriptsDir \o <<Separator>>)
             /\ Len(resolved[1]) > Len(dr.ScriptsDir) + 1
             /\ resolved[1] = Rooted(ResolvedComps)
             /\ \A i \in 1..Len(ResolvedComps) :
                  ResolvedComps[i] \notin {<<>>, <<".">>, <<".", ".">>}
       /\ ~InsideScriptsDir => resolved = <<>>

\* C31 witness: a request that climbs out of ScriptsDir into a sibling whose
\* name starts with the name of ScriptsDir got no command.
C31_Witness ==
    /\ asked
    /\ resolved = <<>>
    /\ dr.ScriptsDir = <<"/", "a">>
    /\ dr.AllowDotFiles
    /\ ResolvedComps = <<<<"a", "a">>>>

\* Some component of the resolved path below ScriptsDir begins with ".".
HasDotComponent ==
    \E i \in (Len(DirComps) + 1)..Len(ResolvedComps) :
        HasPrefix(ResolvedComps[i], <<".">>)

\* C32: with AllowDotFiles unset the runner returns no command for a request
\* whose path below ScriptsDir has a component beginning with "."; with it
\* set such a path inside ScriptsDir is returned.
C32_DotFilesOnlyWhenAllowed ==
    (asked /\ InsideScriptsDir /\ HasDotComponent)
    => IF dr.AllowDotFiles
       THEN resolved = <<Rooted(ResolvedComps)>>
       ELSE resolved = <<>>

\* The manifest field an override attribute writes to.
ManifestField(m, name) ==
    CASE name = AttrAsync -> m.Async
      [] name = AttrTimeout -> m.Timeout
      [] name = AttrDelay -> m.Delay
      [] name = AttrRetries -> m.Retries

\* C33: once readAttrs is through, every attribute that parses is merged
\* onto the manifest and every attribute that does not leaves its field at
\* the default, in whatever order the attributes are listed.
C33_UnparseableAttrSkipped ==
    gpc \in {"serve", "done"}
    => \A i \in 1..Len(xattrs) :
          ManifestField(manifest, xattrs[i].name) =
             IF xattrs[i].parses THEN xattrs[i].value
             ELSE ManifestField(DefaultManifest, xattrs[i].name)

\* C34: behind RequestSizeLimit(maxSize) with an unknown content length the
\* handler never gets more than maxSize bytes, gets ErrTooBigRequest only
\* for a body of more than maxSize bytes, and reads a body of at most
\* maxSize bytes to its end without another error.
C34_LimitAdmitsUpToMaxSize ==
    wrapped
    => /\ received <= sl.maxSize
       /\ "TooBig" \in readErrs => bodyLen > sl.maxSize
       /\ (bodyLen <= sl.maxSize /\ readErrs # {})
          => (readErrs = {"EOF"} /\ received = bodyLen)

\* A request without its X-Attempt header and its remote address.
Comparable(r) ==
    [Method |-> r.Method, Path |-> r.Path, Body |-> r.Body,
     Header |-> [r.Header EXCEPT !["X-Attempt"] = NoHeader]]

\* C35: on every attempt the request parsed back from the file has the
\* method, the path, the headers and the body of the original, apart from
\* X-Attempt.
C35_SpooledRequestRoundTrips ==
    \A i \in 1..Len(seen) :
        /\ ~seen[i].error
        /\ Comparable(seen[i].req) = Comparable(origReq)

\* C39: on every attempt made from the spooled file the CLIENT_ADDR of the
\* child is the remote address of the client that sent the request.
C39_ClientAddrSurvivesSpool ==
    \A i \in 1..Len(seen) :
        ~seen[i].error => ClientAddr(seen[i].req) = ClientAddr(origReq)

\* C36: when runWebhook has returned to main, every worker goroutine it
\* started has returned from Run and no popped item's spooled file is left
\* undeleted.
C36_WorkersReturnBeforeRunWebhook ==
    mainpc \in {"returned", "exited"} =>
        \A w \in Workers : runpc[w] = "returned" /\ ~held[w]

\* C37: an async attempt is declared successful only if the child process
\* exited with status 0, whatever the buffer size and however much the
\* child wrote before it failed.
C37_AttemptSuccessMeansExitZero ==
    (epc = "done" /\ AttemptSucceeded(NopOutcome(response.upstream)))
    => cause = "exit0"

\* C37 (amended): an async attempt whose buffered response had not flushed
\* before the child finished is declared successful only if the child
\* exited with status 0.
C37_UnflushedAttemptSuccessMeansExitZero ==
    (/\ epc = "done"
     /\ ~sentAtExit
     /\ AttemptSucceeded(NopOutcome(response.upstream)))
    => cause = "exit0"

C37_Witness ==
    /\ epc = "done"
    /\ ~sentAtExit
    /\ wrote > 0
    /\ response.upstream.nopStatus = 0
    /\ AttemptSucceeded(NopOutcome(response.upstream))

\* C38: the counter queueSize (and with it the gauge webhooks_async_queue)
\* is never negative, under every interleaving of spoolers and workers.
C38_QueueSizeNeverNegative == queueSize >= 0

\* C40: in the daemon with its own worker pool every acquired permit is
\* released and the busy-workers gauge is decremented once per increment
\* on every path: when all requests have finished, the pool has its
\* Workers permits again and the gauge is back at zero.
C40_PermitsReturned ==
    (\A r \in PoolReqs : hpc[r] = "done")
    => (poolCur = 0 /\ busyWorkers = 0)

====
